---- MODULE Spec2Model ----
(***************************************************************************)
(* Task management system: User / EnhancedTask models, UserRepository,     *)
(* TaskRepository, UserController and TaskController.                      *)
(*                                                                         *)
(* Strings that the code trims, lower-cases or matches against a regular   *)
(* expression are sequences of one-character strings; enumerated values    *)
(* (category, priority, status) are plain strings.  An optional property   *)
(* of a JavaScript object is <<>> when it is undefined and <<v>> when it   *)
(* carries v.  Dates are integers (milliseconds); null is NULL.            *)
(***************************************************************************)
EXTENDS Integers, Sequences, FiniteSets, TLC

VARIABLES
    users,       \* UserRepository.users   : Map in insertion order (sequence of User)
    usersStore,  \* storage record 'users' : array of user JSON
    tasks,       \* TaskRepository.tasks   : Map in insertion order (sequence of EnhancedTask)
    tasksStore,  \* storage record 'tasks' : array of task JSON
    ucUser,      \* UserController.currentUser (id of the referenced User, or NULL)
    tcUser,      \* TaskController.currentUser (id of the referenced User, or NULL)
    nextUserId,  \* source of fresh user ids (User._generateId)
    nextTaskId,  \* source of fresh task ids (EnhancedTask._generateId)
    now,         \* the clock read by new Date()
    isAvailable, \* EnhancedStorageManager.isAvailable
    exported,    \* the object the last exportData() returned, if any
    metadata,    \* storage record '_metadata': its data, if the record is there
    stamps,      \* the timestamp of the envelope of each storage record, or NULL
    stack,       \* the calls of EnhancedStorageManager that are under way
    held,        \* a container of an entity that a caller holds, if any
    resp         \* what the last call returned or raised

vars == <<users, usersStore, tasks, tasksStore, ucUser, tcUser,
         nextUserId, nextTaskId, now, isAvailable, exported,
         metadata, stamps, stack, held, resp>>

NULL == -1

\* ------------------------------------------------------------------ bounds
MaxUsers == 2
MaxTasks == 1
MaxLen == 2

\* ------------------------------------------------------------------ optional values
None == <<>>
Some(v) == <<v>>
IsSome(o) == Len(o) = 1
Val(o) == o[1]

\* ------------------------------------------------------------------ strings
LowerChar(c) ==
    CASE c = "A" -> "a"
      [] c = "B" -> "b"
      [] c = "C" -> "c"
      [] c = "H" -> "h"
      [] c = "N" -> "n"
      [] c = "T" -> "t"
      [] c = "X" -> "x"
      [] OTHER -> c

toLowerCase(s) == [i \in 1..Len(s) |-> LowerChar(s[i])]

IsSpace(c) == c = " "

RECURSIVE trimStart(_)
trimStart(s) ==
    IF s = <<>> THEN s
    ELSE IF IsSpace(Head(s)) THEN trimStart(Tail(s)) ELSE s

RECURSIVE trimEnd(_)
trimEnd(s) ==
    IF s = <<>> THEN s
    ELSE IF IsSpace(s[Len(s)]) THEN trimEnd(SubSeq(s, 1, Len(s) - 1)) ELSE s

trim(s) == trimEnd(trimStart(s))

\* UTF-16 code unit of a character
CharCode(c) ==
    CASE c = " " -> 32
      [] c = "." -> 46
      [] c = "@" -> 64
      [] c = "A" -> 65
      [] c = "B" -> 66
      [] c = "C" -> 67
      [] c = "H" -> 72
      [] c = "N" -> 78
      [] c = "T" -> 84
      [] c = "X" -> 88
      [] c = "a" -> 97
      [] c = "b" -> 98
      [] c = "c" -> 99
      [] c = "h" -> 104
      [] c = "n" -> 110
      [] c = "t" -> 116
      [] c = "x" -> 120
      [] OTHER -> 128

\* the relational operator < on two strings: code unit by code unit, a proper
\* prefix being the lesser
StrLess(a, b) ==
    \E i \in 1..Len(b) :
        /\ \A k \in 1..(i - 1) : k <= Len(a) /\ a[k] = b[k]
        /\ (i > Len(a) \/ CharCode(a[i]) < CharCode(b[i]))

\* JavaScript truthiness of a string: the empty string is falsy.
Truthy(s) == Len(s) > 0

\* /^[^\s@]+@[^\s@]+\.[^\s@]+$/ : no white space, exactly one "@", not first,
\* and a "." after it that leaves a non-empty part on both sides.
_isValidEmail(email) ==
    /\ \A i \in 1..Len(email) : ~IsSpace(email[i])
    /\ \E i \in 2..Len(email) :
          /\ email[i] = "@"
          /\ \A k \in 1..Len(email) : email[k] = "@" => k = i
          /\ \E j \in (i + 2)..(Len(email) - 1) : email[j] = "."

\* Date.prototype.toISOString and new Date(isoString)
toISOString(t) == <<"iso", t>>
parseDate(iso) == iso[2]

\* ------------------------------------------------------------------ EnhancedStorageManager
\* usersStore and tasksStore are what the records 'users' and 'tasks' hold; a
\* record that is not there reads as the empty array, the default every
\* repository loads with.
\* The '_metadata' record, the envelopes' timestamps and the calls under way
\* are followed where the manager is taken step by step; a call of a
\* repository is taken with the data it leaves in 'users' and 'tasks'.
metaSide == <<metadata, stamps, stack>>

\* the records of the application's namespace
Keys == {"users", "tasks", "_metadata"}

\* a store nothing was written to through the steps of the manager
NoCallsYet ==
    /\ metadata = <<>>
    /\ stamps = [k \in Keys |-> NULL]
    /\ stack = <<>>
    /\ held = <<>>

storeSide == <<isAvailable, exported, metaSide, held>>

\* a save that writes whether or not the store is available
save_always(stored, data) == data

\* save(entity, data): what the record holds afterwards
save(stored, data) == IF isAvailable THEN data ELSE stored

\* load(entity, defaultValue)
load(stored, defaultValue) == IF isAvailable THEN stored ELSE defaultValue

\* ------------------------------------------------------------------ responses
NoSupplied == [category |-> None, priority |-> None, status |-> None]

\* the criteria object of a query, with no criterion supplied
NoFilters ==
    [ownerId |-> None, assigneeId |-> None, category |-> None, status |-> None,
     priority |-> None, overdue |-> None, dueSoon |-> None, tags |-> None,
     sortBy |-> None, sortOrder |-> None]

\* the arguments of a repository query
NoQuery == [filters |-> NoFilters, sortBy |-> "", order |-> "", days |-> 0, userId |-> 0]

\* op: the method called; success: the envelope's flag (or a truthy return value);
\* threw: an exception reached the caller; id: the entity the call was about;
\* data: ids of the tasks returned; stats: the statistics object returned;
\* value: what load returned, and the default it was given;
\* the other fields record the call's arguments.
NoResp ==
    [op |-> "none", success |-> FALSE, threw |-> FALSE, error |-> "", id |-> 0,
     data |-> <<>>, username |-> <<>>, email |-> <<>>, assigneeId |-> None,
     supplied |-> NoSupplied, query |-> NoQuery, stats |-> <<>>, value |-> <<>>,
     ownerId |-> None, count |-> None]

Returned(op, id) ==
    [NoResp EXCEPT !.op = op, !.success = TRUE, !.id = id]

Failed(op, id, error) ==
    [NoResp EXCEPT !.op = op, !.error = error, !.id = id]

Threw(op, id, error) ==
    [NoResp EXCEPT !.op = op, !.threw = TRUE, !.error = error, !.id = id]

\* ------------------------------------------------------------------ User model
DefaultPreferences ==
    [theme |-> "light", defaultCategory |-> "personal", emailNotifications |-> TRUE]

\* new User(username, email, fullName): "ok" or the message thrown
UserCtorError(username, email) ==
    IF ~Truthy(username) \/ trim(username) = <<>> THEN "Username wajib diisi"
    ELSE IF ~Truthy(email) \/ ~_isValidEmail(email) THEN "Email tidak valid"
    ELSE "ok"

NewUser(id, username, email, fullName, t) ==
    [id |-> id,
     username |-> toLowerCase(trim(username)),
     email |-> toLowerCase(trim(email)),
     fullName |-> IF Truthy(fullName) THEN trim(fullName) ELSE <<>>,
     role |-> "user",
     isActive |-> TRUE,
     createdAt |-> t,
     lastLoginAt |-> NULL,
     preferences |-> DefaultPreferences]

\* User.updateProfile(fullName, email); arguments are optional values
updateProfileError(fullName, email) ==
    IF IsSome(email) /\ Truthy(Val(email)) /\ ~_isValidEmail(Val(email))
    THEN "Email tidak valid" ELSE "ok"

updateProfile(u, fullName, email) ==
    [u EXCEPT
        !.fullName = IF IsSome(fullName) /\ Truthy(Val(fullName))
                     THEN trim(Val(fullName)) ELSE @,
        !.email = IF IsSome(email) /\ Truthy(Val(email))
                  THEN toLowerCase(trim(Val(email))) ELSE @]

\* { ...this._preferences, ...newPreferences }
updatePreferences(u, newPreferences) ==
    [u EXCEPT !.preferences =
        [k \in DOMAIN @ \cup DOMAIN newPreferences |->
            IF k \in DOMAIN newPreferences THEN newPreferences[k] ELSE @[k]]]

UserToJSON(u) ==
    [id |-> u.id, username |-> u.username, email |-> u.email, fullName |-> u.fullName,
     role |-> u.role, isActive |-> u.isActive,
     createdAt |-> toISOString(u.createdAt),
     lastLoginAt |-> IF u.lastLoginAt # NULL THEN toISOString(u.lastLoginAt) ELSE <<>>,
     preferences |-> u.preferences]

\* ------------------------------------------------------------------ UserRepository
IndexOfId(s, id) ==
    IF \E i \in 1..Len(s) : s[i].id = id
    THEN CHOOSE i \in 1..Len(s) : s[i].id = id
    ELSE 0

HasId(s, id) == IndexOfId(s, id) # 0

RemoveId(s, id) ==
    LET Keep(e) == e.id # id IN SelectSeq(s, Keep)

findAll(us) == us

findActive(us) ==
    LET Test(user) == user.isActive IN SelectSeq(findAll(us), Test)

\* findByUsername / findByEmail: the argument is lower-cased, not trimmed
findByUsername(us, username) ==
    LET n == toLowerCase(username)
    IN  IF \E i \in 1..Len(us) : us[i].username = n
        THEN CHOOSE i \in 1..Len(us) :
                 /\ us[i].username = n
                 /\ \A k \in 1..(i - 1) : us[k].username # n
        ELSE 0

findByEmail(us, email) ==
    LET n == toLowerCase(email)
    IN  IF \E i \in 1..Len(us) : us[i].email = n
        THEN CHOOSE i \in 1..Len(us) :
                 /\ us[i].email = n
                 /\ \A k \in 1..(i - 1) : us[k].email # n
        ELSE 0

_saveUsers(us) == [i \in 1..Len(us) |-> UserToJSON(us[i])]

\* UserRepository.create: the outcome as [error, users]
createUser(us, userData, id, t) ==
    IF findByUsername(us, userData.username) # 0
    THEN [error |-> "Username sudah digunakan", users |-> us]
    ELSE IF findByEmail(us, userData.email) # 0
    THEN [error |-> "Email sudah digunakan", users |-> us]
    ELSE IF UserCtorError(userData.username, userData.email) # "ok"
    THEN [error |-> UserCtorError(userData.username, userData.email), users |-> us]
    ELSE [error |-> "ok",
          users |-> Append(us, NewUser(id, userData.username, userData.email,
                                       userData.fullName, t))]

\* UserRepository.update on a user that exists: the outcome as [error, user]
updateUser(u, updates) ==
    LET profile == IsSome(updates.fullName) \/ IsSome(updates.email)
        err == IF profile THEN updateProfileError(updates.fullName, updates.email)
               ELSE "ok"
        u1 == IF profile THEN updateProfile(u, updates.fullName, updates.email) ELSE u
        u2 == IF IsSome(updates.preferences)
              THEN updatePreferences(u1, Val(updates.preferences)) ELSE u1
        u3 == IF IsSome(updates.isActive)
              THEN [u2 EXCEPT !.isActive = Val(updates.isActive)] ELSE u2
    IN  IF err # "ok" THEN [error |-> err, user |-> u] ELSE [error |-> "ok", user |-> u3]

\* ------------------------------------------------------------------ EnhancedTask model
validCategories == {"work", "personal", "study", "health", "finance", "other"}
validPriorities == {"low", "medium", "high", "urgent"}
validStatuses == {"pending", "in-progress", "blocked", "completed", "cancelled"}

\* options.x || fallback: an undefined or empty string gives way to the fallback
OrElse(o, fallback) ==
    IF IsSome(o) /\ Val(o) # "" THEN Val(o) ELSE fallback

\* options.x || fallback for an id or a number: undefined and 0 give way
OrElseNum(o, fallback) ==
    IF IsSome(o) /\ Val(o) # 0 THEN Val(o) ELSE fallback

_validateCategory(category) ==
    IF category \in validCategories THEN "ok" ELSE "Kategori tidak valid"

_validatePriority(priority) ==
    IF priority \in validPriorities THEN "ok" ELSE "Prioritas tidak valid"

_validateStatus(status) ==
    IF status \in validStatuses THEN "ok" ELSE "Status tidak valid"

\* new EnhancedTask(title, description, ownerId, options): "ok" or the message thrown
TaskCtorError(title, ownerId, options) ==
    IF ~Truthy(title) \/ trim(title) = <<>> THEN "Judul task wajib diisi"
    ELSE IF OrElseNum(ownerId, 0) = 0 THEN "Owner ID wajib diisi"
    ELSE IF _validateCategory(OrElse(options.category, "personal")) # "ok"
    THEN _validateCategory(OrElse(options.category, "personal"))
    ELSE IF _validatePriority(OrElse(options.priority, "medium")) # "ok"
    THEN _validatePriority(OrElse(options.priority, "medium"))
    ELSE _validateStatus(OrElse(options.status, "pending"))

NewTask(id, title, description, ownerId, options, t) ==
    [id |-> id,
     title |-> trim(title),
     description |-> IF Truthy(description) THEN trim(description) ELSE <<>>,
     ownerId |-> Val(ownerId),
     assigneeId |-> OrElseNum(options.assigneeId, Val(ownerId)),
     category |-> OrElse(options.category, "personal"),
     tags |-> IF IsSome(options.tags) THEN Val(options.tags) ELSE <<>>,
     priority |-> OrElse(options.priority, "medium"),
     status |-> OrElse(options.status, "pending"),
     dueDate |-> OrElseNum(options.dueDate, NULL),
     createdAt |-> t,
     updatedAt |-> t,
     completedAt |-> NULL,
     estimatedHours |-> OrElseNum(options.estimatedHours, 0),
     actualHours |-> 0,
     notes |-> <<>>,
     attachments |-> <<>>]

\* The mutators: each yields [error, task]; a mutator that throws leaves the task as it was.
Done(task) == [error |-> "ok", task |-> task]
Raise(error, task) == [error |-> error, task |-> task]
_updateTimestamp(task, t) == [task EXCEPT !.updatedAt = t]

updateTitle(task, newTitle, t) ==
    IF ~Truthy(newTitle) \/ trim(newTitle) = <<>>
    THEN Raise("Judul task tidak boleh kosong", task)
    ELSE Done(_updateTimestamp([task EXCEPT !.title = trim(newTitle)], t))

updateDescription(task, newDescription, t) ==
    Done(_updateTimestamp(
        [task EXCEPT !.description =
            IF Truthy(newDescription) THEN trim(newDescription) ELSE <<>>], t))

updateCategory(task, newCategory, t) ==
    IF _validateCategory(newCategory) # "ok"
    THEN Raise(_validateCategory(newCategory), task)
    ELSE Done(_updateTimestamp([task EXCEPT !.category = newCategory], t))

updatePriority(task, newPriority, t) ==
    IF _validatePriority(newPriority) # "ok"
    THEN Raise(_validatePriority(newPriority), task)
    ELSE Done(_updateTimestamp([task EXCEPT !.priority = newPriority], t))

updateStatus(task, newStatus, t) ==
    IF _validateStatus(newStatus) # "ok"
    THEN Raise(_validateStatus(newStatus), task)
    ELSE Done(_updateTimestamp(
            [task EXCEPT
                !.status = newStatus,
                !.completedAt =
                    IF newStatus = "completed" /\ task.status # "completed" THEN t
                    ELSE IF newStatus # "completed" THEN NULL
                    ELSE @], t))

setDueDate(task, dueDate, t) ==
    Done(_updateTimestamp([task EXCEPT !.dueDate = dueDate], t))

assignTo(task, userId, t) ==
    Done(_updateTimestamp([task EXCEPT !.assigneeId = userId], t))

addTimeSpent(task, hours, t) ==
    IF hours > 0
    THEN Done(_updateTimestamp([task EXCEPT !.actualHours = @ + hours], t))
    ELSE Done(task)

setEstimatedHours(task, hours, t) ==
    Done(_updateTimestamp(
        [task EXCEPT !.estimatedHours = IF hours > 0 THEN hours ELSE 0], t))

Includes(s, e) == \E i \in 1..Len(s) : s[i] = e

addTag(task, tag, t) ==
    IF Truthy(tag) /\ ~Includes(task.tags, tag)
    THEN Done(_updateTimestamp([task EXCEPT !.tags = Append(@, tag)], t))
    ELSE Done(task)

\* indexOf + splice: the first occurrence goes
removeTag(task, tag, t) ==
    IF Includes(task.tags, tag)
    THEN LET i == CHOOSE k \in 1..Len(task.tags) :
                      /\ task.tags[k] = tag
                      /\ \A m \in 1..(k - 1) : task.tags[m] # tag
         IN  Done(_updateTimestamp(
                [task EXCEPT !.tags = SubSeq(@, 1, i - 1) \o SubSeq(@, i + 1, Len(@))], t))
    ELSE Done(task)

addNote(task, note, t) ==
    IF Truthy(note) /\ trim(note) # <<>>
    THEN Done(_updateTimestamp(
            [task EXCEPT !.notes =
                Append(@, [id |-> t, content |-> trim(note), createdAt |-> t])], t))
    ELSE Done(task)

isCompleted(task) == task.status = "completed"

OptDate(d) == IF d # NULL THEN toISOString(d) ELSE <<>>

TaskToJSON(task) ==
    [task EXCEPT !.dueDate = OptDate(@), !.createdAt = toISOString(@),
                 !.updatedAt = toISOString(@), !.completedAt = OptDate(@)]

\* EnhancedTask.fromJSON: through the constructor, then the stored fields
TaskFromJSON(data, t) ==
    LET options == [assigneeId |-> Some(data.assigneeId),
                    category |-> Some(data.category),
                    tags |-> Some(data.tags),
                    priority |-> Some(data.priority),
                    status |-> Some(data.status),
                    dueDate |-> IF data.dueDate = <<>> THEN None
                                ELSE Some(parseDate(data.dueDate)),
                    estimatedHours |-> Some(data.estimatedHours)]
        made == NewTask(data.id, data.title, data.description, Some(data.ownerId),
                        options, t)
    IN  [error |-> TaskCtorError(data.title, Some(data.ownerId), options),
         task |-> [made EXCEPT
                     !.createdAt = parseDate(data.createdAt),
                     !.updatedAt = parseDate(data.updatedAt),
                     !.completedAt = IF data.completedAt = <<>> THEN NULL
                                     ELSE parseDate(data.completedAt),
                     !.actualHours = data.actualHours,
                     !.notes = data.notes,
                     !.attachments = data.attachments]]

\* User.fromJSON: through the constructor, then the stored fields
UserFromJSON(data, t) ==
    [error |-> UserCtorError(data.username, data.email),
     user |-> [NewUser(data.id, data.username, data.email, data.fullName, t) EXCEPT
                 !.role = data.role,
                 !.isActive = data.isActive,
                 !.createdAt = parseDate(data.createdAt),
                 !.lastLoginAt = IF data.lastLoginAt = <<>> THEN NULL
                                 ELSE parseDate(data.lastLoginAt),
                 !.preferences = data.preferences]]

\* ------------------------------------------------------------------ TaskRepository
_saveTasks(ts) == [i \in 1..Len(ts) |-> TaskToJSON(ts[i])]

\* _loadTasksFromStorage / _loadUsersFromStorage: an entry that fails to load is skipped
RECURSIVE _loadTasks(_, _)
_loadTasks(store, t) ==
    IF store = <<>> THEN <<>>
    ELSE LET r == TaskFromJSON(Head(store), t)
         IN  (IF r.error = "ok" THEN <<r.task>> ELSE <<>>) \o _loadTasks(Tail(store), t)

RECURSIVE _loadUsers(_, _)
_loadUsers(store, t) ==
    IF store = <<>> THEN <<>>
    ELSE LET r == UserFromJSON(Head(store), t)
         IN  (IF r.error = "ok" THEN <<r.user>> ELSE <<>>) \o _loadUsers(Tail(store), t)

\* TaskRepository.create: the outcome as [error, tasks]
createTaskIn(ts, taskData, id, t) ==
    LET err == TaskCtorError(taskData.title, taskData.ownerId, taskData)
    IN  IF err # "ok" THEN [error |-> err, tasks |-> ts]
        ELSE [error |-> "ok",
              tasks |-> Append(ts, NewTask(id, taskData.title, taskData.description,
                                           taskData.ownerId, taskData, t))]

\* TaskRepository.update on a task that exists: the mutators in the order of the
\* code; the first that throws ends the call and keeps what the earlier ones did.
applyUpdates(task, updates, t) ==
    LET \* one line of the method: if (updates.key !== undefined) task.mutator(...)
        Apply(r, key, Mutator(_, _, _), tt) ==
            IF r.error # "ok" \/ ~IsSome(key) THEN r ELSE Mutator(r.task, Val(key), tt)
        r1 == Apply(Done(task), updates.title, updateTitle, t)
        r2 == Apply(r1, updates.description, updateDescription, t)
        r3 == Apply(r2, updates.category, updateCategory, t)
        r4 == Apply(r3, updates.priority, updatePriority, t)
        r5 == Apply(r4, updates.status, updateStatus, t)
        r6 == Apply(r5, updates.dueDate, setDueDate, t)
        r7 == Apply(r6, updates.assigneeId, assignTo, t)
        r8 == Apply(r7, updates.estimatedHours, setEstimatedHours, t)
        r9 == Apply(r8, updates.addTimeSpent, addTimeSpent, t)
        r10 == Apply(r9, updates.addTag, addTag, t)
        r11 == Apply(r10, updates.removeTag, removeTag, t)
    IN  Apply(r11, updates.addNote, addNote, t)

\* update of the repository that handles seven keys
applyUpdates_basic(task, updates, t) ==
    LET Apply(r, key, Mutator(_, _, _), tt) ==
            IF r.error # "ok" \/ ~IsSome(key) THEN r ELSE Mutator(r.task, Val(key), tt)
        r1 == Apply(Done(task), updates.title, updateTitle, t)
        r2 == Apply(r1, updates.description, updateDescription, t)
        r3 == Apply(r2, updates.category, updateCategory, t)
        r4 == Apply(r3, updates.priority, updatePriority, t)
        r5 == Apply(r4, updates.status, updateStatus, t)
        r6 == Apply(r5, updates.dueDate, setDueDate, t)
    IN  Apply(r6, updates.estimatedHours, setEstimatedHours, t)

\* ------------------------------------------------------------------ derived state and queries
DayMs == 1000 * 60 * 60 * 24

\* overdue whatever the status
isOverdue_anyStatus(task, t) ==
    IF task.dueDate = NULL THEN FALSE ELSE t > task.dueDate

isOverdue(task, t) ==
    IF task.dueDate = NULL \/ isCompleted(task) THEN FALSE ELSE t > task.dueDate

\* Math.floor in the place of Math.ceil
daysUntilDue_floor(task, t) == (task.dueDate - t) \div DayMs

\* Math.ceil((dueDate - today) / DayMs); defined when the task has a due date
daysUntilDue(task, t) == 0 - ((t - task.dueDate) \div DayMs)

isDueSoon(task, days, t) ==
    /\ task.dueDate # NULL
    /\ daysUntilDue(task, t) <= days
    /\ daysUntilDue(task, t) >= 0

findByOwner(ts, ownerId) ==
    LET Test(task) == task.ownerId = ownerId IN SelectSeq(ts, Test)

findOverdue(ts, t) ==
    LET Test(task) == isOverdue(task, t) IN SelectSeq(ts, Test)

findDueSoon(ts, days, t) ==
    LET Test(task) == isDueSoon(task, days, t) IN SelectSeq(ts, Test)

\* String.prototype.includes on character sequences
Contains(s, sub) ==
    \E i \in 0..(Len(s) - Len(sub)) : SubSeq(s, i + 1, i + Len(sub)) = sub

search(ts, query) ==
    LET term == toLowerCase(query)
        Test(task) ==
            \/ Contains(toLowerCase(task.title), term)
            \/ Contains(toLowerCase(task.description), term)
            \/ \E i \in 1..Len(task.tags) : Contains(toLowerCase(task.tags[i]), term)
    IN  SelectSeq(ts, Test)

\* TaskRepository.filter: a criterion applies when its value is truthy
filter(ts, filters, t) ==
    LET Test(task) ==
            /\ OrElseNum(filters.ownerId, 0) # 0
                  => task.ownerId = Val(filters.ownerId)
            /\ OrElseNum(filters.assigneeId, 0) # 0
                  => task.assigneeId = Val(filters.assigneeId)
            /\ OrElse(filters.category, "") # "" => task.category = Val(filters.category)
            /\ OrElse(filters.status, "") # "" => task.status = Val(filters.status)
            /\ OrElse(filters.priority, "") # "" => task.priority = Val(filters.priority)
            /\ (IsSome(filters.overdue) /\ Val(filters.overdue)) => isOverdue(task, t)
            /\ (IsSome(filters.dueSoon) /\ Val(filters.dueSoon)) => isDueSoon(task, 3, t)
            /\ (IsSome(filters.tags) /\ Len(Val(filters.tags)) > 0)
                  => \E i \in 1..Len(Val(filters.tags)) :
                         Includes(task.tags, Val(filters.tags)[i])
    IN  SelectSeq(ts, Test)

\* The key TaskRepository.sort compares two tasks on
priorityOrder == [low |-> 1, medium |-> 2, high |-> 3, urgent |-> 4]
FarFuture == 2000000000

SortKey(task, sortBy) ==
    CASE sortBy = "title" -> toLowerCase(task.title)
      [] sortBy = "priority" -> priorityOrder[task.priority]
      [] sortBy = "dueDate" -> IF task.dueDate # NULL THEN task.dueDate ELSE FarFuture
      [] sortBy = "updatedAt" -> task.updatedAt
      [] OTHER -> task.createdAt

\* a < b on two values of one kind: numbers, or strings by code units
Less(va, vb, sortBy) ==
    IF sortBy = "title" THEN StrLess(va, vb) ELSE va < vb

\* The comparator's result for (a, b): positive when a goes after b
Compare(a, b, sortBy, order) ==
    LET va == SortKey(a, sortBy)
        vb == SortKey(b, sortBy)
    IN  IF order = "asc"
        THEN (IF Less(vb, va, sortBy) THEN 1 ELSE IF Less(va, vb, sortBy) THEN -1 ELSE 0)
        ELSE (IF Less(va, vb, sortBy) THEN 1 ELSE IF Less(vb, va, sortBy) THEN -1 ELSE 0)

\* Array.prototype.sort is stable: an element goes after the last one it does
\* not precede.
RECURSIVE InsertSorted(_, _, _, _)
InsertSorted(sorted, e, sortBy, order) ==
    IF sorted = <<>> THEN <<e>>
    ELSE IF Compare(sorted[Len(sorted)], e, sortBy, order) > 0
    THEN Append(InsertSorted(SubSeq(sorted, 1, Len(sorted) - 1), e, sortBy, order),
                sorted[Len(sorted)])
    ELSE Append(sorted, e)

RECURSIVE sort(_, _, _)
sort(ts, sortBy, order) ==
    IF ts = <<>> THEN <<>>
    ELSE InsertSorted(sort(SubSeq(ts, 1, Len(ts) - 1), sortBy, order),
                      ts[Len(ts)], sortBy, order)

Ids(ts) == [i \in 1..Len(ts) |-> ts[i].id]

\* TaskRepository.filter as the shorter repository has it: four criteria
filter_basic(ts, filters) ==
    LET Test(task) ==
            /\ OrElseNum(filters.ownerId, 0) # 0
                  => task.ownerId = Val(filters.ownerId)
            /\ OrElse(filters.category, "") # "" => task.category = Val(filters.category)
            /\ OrElse(filters.status, "") # "" => task.status = Val(filters.status)
            /\ OrElse(filters.priority, "") # "" => task.priority = Val(filters.priority)
    IN  SelectSeq(ts, Test)

\* The shorter repository's sort compares a[sortBy] as it is: the title with
\* its case, a null due date as the number 0.
SortKey_basic(task, sortBy) ==
    CASE sortBy = "title" -> task.title
      [] sortBy = "priority" -> priorityOrder[task.priority]
      [] sortBy = "dueDate" -> IF task.dueDate # NULL THEN task.dueDate ELSE 0
      [] sortBy = "updatedAt" -> task.updatedAt
      [] OTHER -> task.createdAt

\* Its comparator answers -1 for two equal keys whichever comes first, so the
\* order of equal keys is the engine's choice: every arrangement of the input
\* that no pair of unequal keys contradicts.
sort_basic(ts, sortBy, order) ==
    LET n == Len(ts)
        InOrder(p) ==
            \A i, j \in 1..n :
                i < j =>
                    LET vi == SortKey_basic(p[i], sortBy)
                        vj == SortKey_basic(p[j], sortBy)
                    IN  IF order = "asc" THEN ~Less(vj, vi, sortBy)
                        ELSE ~Less(vi, vj, sortBy)
    IN  { p \in { [i \in 1..n |-> ts[f[i]]] : f \in Permutations(1..n) } : InOrder(p) }

\* getStats(userId = null): the tasks counted
StatsTasks(ts, userId) == IF userId # 0 THEN findByOwner(ts, userId) ELSE ts

getStats(ts, userId, t) ==
    LET mine == StatsTasks(ts, userId)
        Overdue(task) == isOverdue(task, t)
        DueSoon(task) == isDueSoon(task, 3, t)
    IN  [total |-> Len(mine),
         byStatus |-> [st \in validStatuses |->
                          LET Is(task) == task.status = st IN Len(SelectSeq(mine, Is))],
         byPriority |-> [pr \in validPriorities |->
                          LET Is(task) == task.priority = pr IN Len(SelectSeq(mine, Is))],
         byCategory |-> [c \in validCategories |->
                          LET Is(task) == task.category = c IN Len(SelectSeq(mine, Is))],
         overdue |-> Len(SelectSeq(mine, Overdue)),
         dueSoon |-> Len(SelectSeq(mine, DueSoon)),
         completed |-> Len(SelectSeq(mine, isCompleted))]

\* getStats as the shorter repository has it
getStats_basic(ts, userId, t) ==
    LET mine == StatsTasks(ts, userId)
        Overdue(task) == isOverdue(task, t)
    IN  [total |-> Len(mine),
         completed |-> Len(SelectSeq(mine, isCompleted)),
         overdue |-> Len(SelectSeq(mine, Overdue)),
         byStatus |-> [st \in {"pending", "completed"} |->
                          LET Is(task) == task.status = st IN Len(SelectSeq(mine, Is))],
         byPriority |-> [pr \in {"high"} |->
                          LET Is(task) == task.priority = pr IN Len(SelectSeq(mine, Is))]]

\* EnhancedTask.getAvailableCategories(): the enumerated categories
getAvailableCategories == validCategories

getCategoryStats(ts, userId, t) ==
    LET mine == StatsTasks(ts, userId)
    IN  [c \in getAvailableCategories |->
            LET In(task) == task.category = c
                Finished(task) == In(task) /\ isCompleted(task)
                Open(task) == In(task) /\ ~isCompleted(task)
                Late(task) == In(task) /\ isOverdue(task, t)
            IN  [total |-> Len(SelectSeq(mine, In)), completed |-> Len(SelectSeq(mine, Finished)),
                 pending |-> Len(SelectSeq(mine, Open)), overdue |-> Len(SelectSeq(mine, Late))]]

\* ------------------------------------------------------------------ UserRepository calls
taskSide == <<tasks, tasksStore, tcUser, nextTaskId, now, storeSide>>

UserRepository_create(userData) ==
    LET r == createUser(users, userData, nextUserId, now)
    IN  /\ r.error = "ok" => nextUserId <= MaxUsers
        /\ users' = r.users
        /\ usersStore' = IF r.error = "ok" THEN save(usersStore, _saveUsers(r.users)) ELSE usersStore
        /\ nextUserId' = IF r.error = "ok" THEN nextUserId + 1 ELSE nextUserId
        /\ resp' = [(IF r.error = "ok"
                     THEN Returned("UserRepository.create", nextUserId)
                     ELSE Threw("UserRepository.create", 0, r.error))
                    EXCEPT !.username = userData.username, !.email = userData.email]
        /\ UNCHANGED <<ucUser, taskSide>>

UserRepository_update(id, updates) ==
    LET i == IndexOfId(users, id)
        r == updateUser(users[i], updates)
    IN  /\ IF i = 0
           THEN /\ resp' = Failed("UserRepository.update", id, "null")
                /\ UNCHANGED <<users, usersStore>>
           ELSE IF r.error # "ok"
           THEN /\ resp' = Threw("UserRepository.update", id, r.error)
                /\ UNCHANGED <<users, usersStore>>
           ELSE /\ users' = [users EXCEPT ![i] = r.user]
                /\ usersStore' = save(usersStore, _saveUsers(users'))
                /\ resp' = Returned("UserRepository.update", id)
        /\ UNCHANGED <<ucUser, nextUserId, taskSide>>

UserRepository_delete(id) ==
    LET i == IndexOfId(users, id)
    IN  /\ IF i = 0
           THEN /\ resp' = Failed("UserRepository.delete", id, "false")
                /\ UNCHANGED <<users, usersStore>>
           ELSE /\ users' = [users EXCEPT ![i].isActive = FALSE]
                /\ usersStore' = save(usersStore, _saveUsers(users'))
                /\ resp' = Returned("UserRepository.delete", id)
        /\ UNCHANGED <<ucUser, nextUserId, taskSide>>

UserRepository_hardDelete(id) ==
    /\ IF HasId(users, id)
       THEN /\ users' = RemoveId(users, id)
            /\ usersStore' = save(usersStore, _saveUsers(users'))
            /\ resp' = Returned("UserRepository.hardDelete", id)
       ELSE /\ resp' = Failed("UserRepository.hardDelete", id, "false")
            /\ UNCHANGED <<users, usersStore>>
    /\ UNCHANGED <<ucUser, nextUserId, taskSide>>

UserRepository_recordLogin(id) ==
    LET i == IndexOfId(users, id)
    IN  /\ IF i = 0
           THEN /\ resp' = Failed("UserRepository.recordLogin", id, "null")
                /\ UNCHANGED <<users, usersStore>>
           ELSE /\ users' = [users EXCEPT ![i].lastLoginAt = now]
                /\ usersStore' = save(usersStore, _saveUsers(users'))
                /\ resp' = Returned("UserRepository.recordLogin", id)
        /\ UNCHANGED <<ucUser, nextUserId, taskSide>>

\* ------------------------------------------------------------------ UserController
UserController_register(userData) ==
    LET r == createUser(users, userData, nextUserId, now)
        blankName == ~Truthy(userData.username) \/ trim(userData.username) = <<>>
        blankMail == ~Truthy(userData.email) \/ trim(userData.email) = <<>>
        ok == ~blankName /\ ~blankMail /\ r.error = "ok"
    IN  /\ ok => nextUserId <= MaxUsers
        /\ users' = IF ok THEN r.users ELSE users
        /\ usersStore' = IF ok THEN save(usersStore, _saveUsers(r.users)) ELSE usersStore
        /\ nextUserId' = IF ok THEN nextUserId + 1 ELSE nextUserId
        /\ resp' = [(IF blankName
                     THEN Failed("UserController.register", 0, "Username wajib diisi")
                     ELSE IF blankMail
                     THEN Failed("UserController.register", 0, "Email wajib diisi")
                     ELSE IF r.error # "ok"
                     THEN Failed("UserController.register", 0, r.error)
                     ELSE Returned("UserController.register", nextUserId))
                    EXCEPT !.username = userData.username, !.email = userData.email]
        /\ UNCHANGED <<ucUser, taskSide>>

\* a variant that binds the user it found before it looks at isActive
UserController_login_bindsFirst(username) ==
    LET op == "UserController.login"
        i == findByUsername(users, username)
        called == [NoResp EXCEPT !.username = username]
    IN  /\ IF ~Truthy(username) \/ trim(username) = <<>>
           THEN /\ resp' = [called EXCEPT !.op = op, !.error = "Username wajib diisi"]
                /\ UNCHANGED <<users, usersStore, ucUser>>
           ELSE IF i = 0
           THEN /\ resp' = [called EXCEPT !.op = op, !.error = "User tidak ditemukan"]
                /\ UNCHANGED <<users, usersStore, ucUser>>
           ELSE IF ~users[i].isActive
           THEN /\ resp' = [called EXCEPT !.op = op, !.error = "Akun tidak aktif",
                                          !.id = users[i].id]
                /\ ucUser' = users[i].id
                /\ UNCHANGED <<users, usersStore>>
           ELSE /\ users' = [users EXCEPT ![i].lastLoginAt = now]
                /\ usersStore' = save(usersStore, _saveUsers(users'))
                /\ ucUser' = users[i].id
                /\ resp' = [called EXCEPT !.op = op, !.success = TRUE,
                                          !.id = users[i].id]
        /\ UNCHANGED <<nextUserId, taskSide>>

UserController_login(username) ==
    LET op == "UserController.login"
        i == findByUsername(users, username)
        called == [NoResp EXCEPT !.username = username]
    IN  /\ IF ~Truthy(username) \/ trim(username) = <<>>
           THEN /\ resp' = [called EXCEPT !.op = op, !.error = "Username wajib diisi"]
                /\ UNCHANGED <<users, usersStore, ucUser>>
           ELSE IF i = 0
           THEN /\ resp' = [called EXCEPT !.op = op, !.error = "User tidak ditemukan"]
                /\ UNCHANGED <<users, usersStore, ucUser>>
           ELSE IF ~users[i].isActive
           THEN /\ resp' = [called EXCEPT !.op = op, !.error = "Akun tidak aktif",
                                          !.id = users[i].id]
                /\ UNCHANGED <<users, usersStore, ucUser>>
           ELSE /\ users' = [users EXCEPT ![i].lastLoginAt = now]
                /\ usersStore' = save(usersStore, _saveUsers(users'))
                /\ ucUser' = users[i].id
                /\ resp' = [called EXCEPT !.op = op, !.success = TRUE,
                                          !.id = users[i].id]
        /\ UNCHANGED <<nextUserId, taskSide>>

UserController_logout ==
    /\ ucUser' = NULL
    /\ resp' = Returned("UserController.logout", 0)
    /\ UNCHANGED <<users, usersStore, nextUserId, taskSide>>

UserController_updateProfile(updates) ==
    LET i == IndexOfId(users, ucUser)
        r == updateUser(users[i], updates)
    IN  /\ IF ucUser = NULL
           THEN /\ resp' = Failed("UserController.updateProfile", 0,
                                  "User harus login terlebih dahulu")
                /\ UNCHANGED <<users, usersStore>>
           ELSE IF i = 0
           THEN /\ resp' = Failed("UserController.updateProfile", ucUser,
                                  "Gagal mengupdate profile")
                /\ UNCHANGED <<users, usersStore>>
           ELSE IF r.error # "ok"
           THEN /\ resp' = Failed("UserController.updateProfile", ucUser, r.error)
                /\ UNCHANGED <<users, usersStore>>
           ELSE /\ users' = [users EXCEPT ![i] = r.user]
                /\ usersStore' = save(usersStore, _saveUsers(users'))
                /\ resp' = Returned("UserController.updateProfile", ucUser)
        /\ UNCHANGED <<ucUser, nextUserId, taskSide>>

\* ------------------------------------------------------------------ TaskRepository calls
userSide == <<users, usersStore, ucUser, nextUserId, now, storeSide>>

Supplied(d) == [category |-> d.category, priority |-> d.priority, status |-> d.status]

TaskRepository_create(taskData) ==
    LET r == createTaskIn(tasks, taskData, nextTaskId, now)
    IN  /\ r.error = "ok" => nextTaskId <= MaxTasks
        /\ tasks' = r.tasks
        /\ tasksStore' = IF r.error = "ok" THEN save(tasksStore, _saveTasks(r.tasks)) ELSE tasksStore
        /\ nextTaskId' = IF r.error = "ok" THEN nextTaskId + 1 ELSE nextTaskId
        /\ resp' = [(IF r.error = "ok"
                     THEN Returned("TaskRepository.create", nextTaskId)
                     ELSE Threw("TaskRepository.create", 0, r.error))
                    EXCEPT !.supplied = Supplied(taskData), !.value = taskData.tags]
        /\ UNCHANGED <<tcUser, userSide>>

TaskRepository_update(id, updates) ==
    LET i == IndexOfId(tasks, id)
        r == applyUpdates(tasks[i], updates, now)
    IN  /\ IF i = 0
           THEN /\ resp' = Failed("TaskRepository.update", id, "null")
                /\ UNCHANGED <<tasks, tasksStore>>
           ELSE /\ tasks' = [tasks EXCEPT ![i] = r.task]
                /\ tasksStore' = IF r.error = "ok" THEN save(tasksStore, _saveTasks(tasks')) ELSE tasksStore
                /\ resp' = [(IF r.error = "ok"
                             THEN Returned("TaskRepository.update", id)
                             ELSE Threw("TaskRepository.update", id, r.error))
                            EXCEPT !.supplied = Supplied(updates)]
        /\ UNCHANGED <<nextTaskId, tcUser, userSide>>

TaskRepository_update_basic(id, updates) ==
    LET i == IndexOfId(tasks, id)
        r == applyUpdates_basic(tasks[i], updates, now)
    IN  /\ IF i = 0
           THEN /\ resp' = Failed("TaskRepository.update", id, "null")
                /\ UNCHANGED <<tasks, tasksStore>>
           ELSE /\ tasks' = [tasks EXCEPT ![i] = r.task]
                /\ tasksStore' = IF r.error = "ok" THEN save(tasksStore, _saveTasks(tasks')) ELSE tasksStore
                /\ resp' = [(IF r.error = "ok"
                             THEN Returned("TaskRepository.update", id)
                             ELSE Threw("TaskRepository.update", id, r.error))
                            EXCEPT !.supplied = Supplied(updates)]
        /\ UNCHANGED <<nextTaskId, tcUser, userSide>>

TaskRepository_delete(id) ==
    /\ IF HasId(tasks, id)
       THEN /\ tasks' = RemoveId(tasks, id)
            /\ tasksStore' = save(tasksStore, _saveTasks(tasks'))
            /\ resp' = Returned("TaskRepository.delete", id)
       ELSE /\ resp' = Failed("TaskRepository.delete", id, "false")
            /\ UNCHANGED <<tasks, tasksStore>>
    /\ UNCHANGED <<nextTaskId, tcUser, userSide>>

\* ------------------------------------------------------------------ TaskController
NoActor == tcUser = NULL

isOwner(task, actor) == task.ownerId = actor

\* a variant that lets only the owner read
canRead_ownerOnly(task, actor) == task.ownerId = actor

canRead(task, actor) == task.ownerId = actor \/ task.assigneeId = actor

\* a variant that looks the assignee up only when it is the actor
assigneeMissing_self(assigneeId, actor, us) ==
    /\ OrElseNum(assigneeId, 0) # 0
    /\ Val(assigneeId) = actor
    /\ ~HasId(us, Val(assigneeId))

\* An assignee other than the actor has to be a user of the repository
assigneeMissing(assigneeId, actor, us) ==
    /\ OrElseNum(assigneeId, 0) # 0
    /\ Val(assigneeId) # actor
    /\ ~HasId(us, Val(assigneeId))

\* a variant that answers a call without an actor as a silent no-op
LoginFirst_silent(op, id) == Returned(op, id)

LoginFirst(op, id) == Failed(op, id, "User harus login terlebih dahulu")

\* a variant that looks the user up before it touches currentUser
TaskController_setCurrentUser_keeping(userId) ==
    /\ tcUser' = IF HasId(users, userId) THEN userId ELSE tcUser
    /\ resp' = [(IF HasId(users, userId)
                 THEN Returned("TaskController.setCurrentUser", userId)
                 ELSE Threw("TaskController.setCurrentUser", userId, "User tidak ditemukan"))
                EXCEPT !.value = tcUser]
    /\ UNCHANGED <<tasks, tasksStore, nextTaskId, userSide>>

\* the answer keeps in value the actor that was bound when the call was made
TaskController_setCurrentUser(userId) ==
    /\ tcUser' = IF HasId(users, userId) THEN userId ELSE NULL
    /\ resp' = [(IF HasId(users, userId)
                 THEN Returned("TaskController.setCurrentUser", userId)
                 ELSE Threw("TaskController.setCurrentUser", userId, "User tidak ditemukan"))
                EXCEPT !.value = tcUser]
    /\ UNCHANGED <<tasks, tasksStore, nextTaskId, userSide>>

\* a variant that keeps the owner the input names
taskToCreate_asGiven(taskData, actor) ==
    [taskData EXCEPT
        !.ownerId = Some(OrElseNum(taskData.ownerId, actor)),
        !.assigneeId = Some(OrElseNum(taskData.assigneeId, actor))]

\* { ...taskData, ownerId: currentUser.id, assigneeId: taskData.assigneeId || currentUser.id }
taskToCreate(taskData, actor) ==
    [taskData EXCEPT
        !.ownerId = Some(actor),
        !.assigneeId = Some(OrElseNum(taskData.assigneeId, actor))]

TaskController_createTask(taskData) ==
    LET op == "TaskController.createTask"
        r == createTaskIn(tasks, taskToCreate(taskData, tcUser), nextTaskId, now)
        refused ==
            IF NoActor THEN "User harus login terlebih dahulu"
            ELSE IF ~Truthy(taskData.title) \/ trim(taskData.title) = <<>>
            THEN "Judul task wajib diisi"
            ELSE IF assigneeMissing(taskData.assigneeId, tcUser, users)
            THEN "User yang di-assign tidak ditemukan"
            ELSE r.error
    IN  /\ refused = "ok" => nextTaskId <= MaxTasks
        /\ tasks' = IF refused = "ok" THEN r.tasks ELSE tasks
        /\ tasksStore' = IF refused = "ok" THEN save(tasksStore, _saveTasks(r.tasks)) ELSE tasksStore
        /\ nextTaskId' = IF refused = "ok" THEN nextTaskId + 1 ELSE nextTaskId
        /\ resp' = [(IF refused = "ok" THEN Returned(op, nextTaskId)
                     ELSE Failed(op, 0, refused))
                    EXCEPT !.supplied = Supplied(taskData),
                           !.assigneeId = taskData.assigneeId,
                           !.ownerId = taskData.ownerId]
        /\ UNCHANGED <<tcUser, userSide>>

TaskController_getTask(taskId) ==
    LET op == "TaskController.getTask"
        i == IndexOfId(tasks, taskId)
    IN  /\ resp' = IF NoActor THEN LoginFirst(op, taskId)
                   ELSE IF i = 0 THEN Failed(op, taskId, "Task tidak ditemukan")
                   ELSE IF ~canRead(tasks[i], tcUser)
                   THEN Failed(op, taskId, "Anda tidak memiliki akses ke task ini")
                   ELSE [Returned(op, taskId) EXCEPT !.data = <<taskId>>]
        /\ UNCHANGED <<tasks, tasksStore, nextTaskId, tcUser, userSide>>

\* TaskController.updateTask as [error, tasks, saved]: what it answers and
\* the index it leaves; saved tells whether the index was written to the store
updateTaskOutcome(ts, actor, us, taskId, updates, t) ==
    LET i == IndexOfId(ts, taskId)
        r == applyUpdates(ts[i], updates, t)
        refused ==
            IF actor = NULL THEN "User harus login terlebih dahulu"
            ELSE IF i = 0 THEN "Task tidak ditemukan"
            ELSE IF ~isOwner(ts[i], actor) THEN "Hanya owner yang bisa mengubah task"
            ELSE IF assigneeMissing(updates.assigneeId, actor, us)
            THEN "User yang di-assign tidak ditemukan"
            ELSE "ok"
    IN  IF refused # "ok" THEN [error |-> refused, tasks |-> ts, saved |-> FALSE]
        ELSE [error |-> r.error, tasks |-> [ts EXCEPT ![i] = r.task],
              saved |-> r.error = "ok"]

TaskController_updateTask(taskId, updates) ==
    LET op == "TaskController.updateTask"
        r == updateTaskOutcome(tasks, tcUser, users, taskId, updates, now)
    IN  /\ tasks' = r.tasks
        /\ tasksStore' = IF r.saved THEN save(tasksStore, _saveTasks(r.tasks)) ELSE tasksStore
        /\ resp' = [(IF r.error = "ok" THEN Returned(op, taskId)
                     ELSE Failed(op, taskId, r.error))
                    EXCEPT !.supplied = Supplied(updates),
                           !.assigneeId = updates.assigneeId]
        /\ UNCHANGED <<nextTaskId, tcUser, userSide>>

TaskController_deleteTask(taskId) ==
    LET op == "TaskController.deleteTask"
        i == IndexOfId(tasks, taskId)
        refused ==
            IF NoActor THEN "User harus login terlebih dahulu"
            ELSE IF i = 0 THEN "Task tidak ditemukan"
            ELSE IF ~isOwner(tasks[i], tcUser) THEN "Hanya owner yang bisa menghapus task"
            ELSE "ok"
    IN  /\ tasks' = IF refused = "ok" THEN RemoveId(tasks, taskId) ELSE tasks
        /\ tasksStore' = IF refused = "ok" THEN save(tasksStore, _saveTasks(tasks')) ELSE tasksStore
        /\ resp' = IF refused = "ok" THEN Returned(op, taskId)
                   ELSE Failed(op, taskId, refused)
        /\ UNCHANGED <<nextTaskId, tcUser, userSide>>

NoTaskUpdates ==
    [title |-> None, description |-> None, category |-> None, priority |-> None,
     status |-> None, dueDate |-> None, assigneeId |-> None, estimatedHours |-> None,
     addTimeSpent |-> None, addTag |-> None, removeTag |-> None, addNote |-> None,
     \* a key update has no line for
     ownerId |-> None]

\* updateTaskCategory goes through updateTask; the display name it then puts in
\* the message comes from EnhancedTask.getCategoryDisplayName, which is not among
\* the files at hand and is taken to return a label without raising
TaskController_updateTaskCategory(taskId, newCategory) ==
    LET op == "TaskController.updateTaskCategory"
        updates == [NoTaskUpdates EXCEPT !.category = Some(newCategory)]
        r == updateTaskOutcome(tasks, tcUser, users, taskId, updates, now)
    IN  /\ tasks' = r.tasks
        /\ tasksStore' = IF r.saved THEN save(tasksStore, _saveTasks(r.tasks)) ELSE tasksStore
        /\ resp' = [(IF r.error = "ok" THEN Returned(op, taskId)
                     ELSE Failed(op, taskId, r.error))
                    EXCEPT !.supplied = Supplied(updates)]
        /\ UNCHANGED <<nextTaskId, tcUser, userSide>>

\* a variant that steps through the statuses instead of flipping
toggled_cycle(task) ==
    IF task.status = "pending" THEN "in-progress"
    ELSE IF task.status = "in-progress" THEN "completed"
    ELSE "pending"

toggled(task) == IF isCompleted(task) THEN "pending" ELSE "completed"

\* toggleTaskStatus as it goes through updateTask
TaskController_toggleTaskStatus(taskId) ==
    LET op == "TaskController.toggleTaskStatus"
        i == IndexOfId(tasks, taskId)
        updates == [NoTaskUpdates EXCEPT !.status = Some(toggled(tasks[i]))]
        r == updateTaskOutcome(tasks, tcUser, users, taskId, updates, now)
    IN  /\ IF i = 0
           THEN /\ resp' = Failed(op, taskId, "Task tidak ditemukan")
                /\ UNCHANGED <<tasks, tasksStore>>
           ELSE /\ tasks' = r.tasks
                /\ tasksStore' = IF r.saved THEN save(tasksStore, _saveTasks(r.tasks)) ELSE tasksStore
                /\ resp' = [(IF r.error = "ok" THEN Returned(op, taskId)
                             ELSE Failed(op, taskId, r.error))
                            EXCEPT !.supplied = Supplied(updates)]
        /\ UNCHANGED <<nextTaskId, tcUser, userSide>>

\* toggleTaskStatus with its own permission test; reading currentUser.id with
\* no bound actor raises a TypeError, which the method's catch turns into an envelope
TaskController_toggleTaskStatus_direct(taskId) ==
    LET op == "TaskController.toggleTaskStatus"
        i == IndexOfId(tasks, taskId)
        updates == [NoTaskUpdates EXCEPT !.status = Some(toggled(tasks[i]))]
        r == applyUpdates(tasks[i], updates, now)
        refused ==
            IF i = 0 THEN "Task tidak ditemukan"
            ELSE IF NoActor THEN "TypeError"
            ELSE IF ~canRead(tasks[i], tcUser) THEN "Anda tidak memiliki akses ke task ini"
            ELSE r.error
    IN  /\ tasks' = IF refused = "ok" THEN [tasks EXCEPT ![i] = r.task] ELSE tasks
        /\ tasksStore' = IF refused = "ok" THEN save(tasksStore, _saveTasks(tasks')) ELSE tasksStore
        /\ resp' = IF refused = "ok"
                   THEN [Returned(op, taskId) EXCEPT !.supplied = Supplied(updates)]
                   ELSE Failed(op, taskId, refused)
        /\ UNCHANGED <<nextTaskId, tcUser, userSide>>

\* The read operations answer with the ids of the tasks they return.
readOnly == <<tasks, tasksStore, nextTaskId, tcUser, userSide>>

OwnedBy(ts, actor) == findByOwner(ts, actor)

TaskController_getTasks(filters) ==
    LET op == "TaskController.getTasks"
        userFilters == [filters EXCEPT !.ownerId = Some(tcUser)]
        found == sort(filter(tasks, userFilters, now),
                      OrElse(filters.sortBy, "createdAt"),
                      OrElse(filters.sortOrder, "desc"))
    IN  /\ resp' = IF NoActor THEN LoginFirst(op, 0)
                   ELSE [Returned(op, 0) EXCEPT !.data = Ids(found),
                                                !.count = Some(Len(found))]
        /\ UNCHANGED readOnly

TaskController_searchTasks(query) ==
    LET op == "TaskController.searchTasks"
    IN  /\ resp' = IF NoActor THEN LoginFirst(op, 0)
                   ELSE IF ~Truthy(query) \/ trim(query) = <<>>
                   THEN Failed(op, 0, "Query pencarian tidak boleh kosong")
                   ELSE [Returned(op, 0) EXCEPT
                            !.data = Ids(OwnedBy(search(tasks, query), tcUser)),
                            !.count = Some(Len(OwnedBy(search(tasks, query), tcUser)))]
        /\ UNCHANGED readOnly

TaskController_getOverdueTasks ==
    LET op == "TaskController.getOverdueTasks"
    IN  /\ resp' = IF NoActor THEN LoginFirst(op, 0)
                   ELSE [Returned(op, 0) EXCEPT
                            !.data = Ids(OwnedBy(findOverdue(tasks, now), tcUser)),
                            !.count = Some(Len(OwnedBy(findOverdue(tasks, now), tcUser)))]
        /\ UNCHANGED readOnly

TaskController_getTasksDueSoon(days) ==
    LET op == "TaskController.getTasksDueSoon"
    IN  /\ resp' = IF NoActor THEN LoginFirst(op, 0)
                   ELSE [Returned(op, 0) EXCEPT
                            !.data = Ids(OwnedBy(findDueSoon(tasks, days, now), tcUser)),
                            !.count = Some(Len(OwnedBy(findDueSoon(tasks, days, now), tcUser)))]
        /\ UNCHANGED readOnly

\* TaskRepository.findByCategory
findByCategory(ts, category) ==
    LET In(task) == task.category = category
    IN  SelectSeq(ts, In)

\* EnhancedTask.isInCategory is not among the files at hand; the task is in
\* the category it carries
isInCategory(task, category) == task.category = category

\* getTasksByCategory that answers without a count; the display name in its
\* answer is taken to be a label returned without raising
TaskController_getTasksByCategory(category) ==
    LET op == "TaskController.getTasksByCategory"
        found == OwnedBy(findByCategory(tasks, category), tcUser)
    IN  /\ resp' = IF NoActor THEN LoginFirst(op, 0)
                   ELSE IF category \notin getAvailableCategories
                   THEN Failed(op, 0, "Kategori tidak valid")
                   ELSE [Returned(op, 0) EXCEPT !.data = Ids(found)]
        /\ UNCHANGED readOnly

\* getTasksByCategory that sorts by priority and answers with a count
TaskController_getTasksByCategory_sorted(category) ==
    LET op == "TaskController.getTasksByCategory"
        In(task) == isInCategory(task, category)
        found == sort(SelectSeq(findByOwner(tasks, tcUser), In), "priority", "desc")
    IN  /\ resp' = IF NoActor THEN LoginFirst(op, 0)
                   ELSE IF category \notin getAvailableCategories
                   THEN Failed(op, 0, "Kategori tidak valid")
                   ELSE [Returned(op, 0) EXCEPT !.data = Ids(found),
                                                !.count = Some(Len(found))]
        /\ UNCHANGED readOnly

\* getTaskStats and getCategoryStats answer with counts over the actor's tasks;
\* the tasks counted are reported in data
TaskController_getTaskStats ==
    LET op == "TaskController.getTaskStats"
    IN  /\ resp' = IF NoActor THEN LoginFirst(op, 0)
                   ELSE [Returned(op, 0) EXCEPT !.data = Ids(OwnedBy(tasks, tcUser))]
        /\ UNCHANGED readOnly

TaskController_getCategoryStats ==
    LET op == "TaskController.getCategoryStats"
    IN  /\ resp' = IF NoActor THEN LoginFirst(op, 0)
                   ELSE [Returned(op, 0) EXCEPT !.data = Ids(OwnedBy(tasks, tcUser))]
        /\ UNCHANGED readOnly

\* TaskRepository.deleteAllByOwner: [tasks, deleted]
deleteAllByOwner(ts, ownerId) ==
    LET Keep(task) == task.ownerId # ownerId
    IN  [tasks |-> SelectSeq(ts, Keep), deleted |-> SelectSeq(ts, Keep) # ts]

TaskController_clearAllTasks ==
    LET op == "TaskController.clearAllTasks"
        r == deleteAllByOwner(tasks, tcUser)
    IN  /\ resp' = IF NoActor THEN Failed(op, 0, "User harus login")
                   ELSE Returned(op, 0)
        /\ tasks' = IF NoActor THEN tasks ELSE r.tasks
        /\ tasksStore' = IF ~NoActor /\ r.deleted THEN save(tasksStore, _saveTasks(r.tasks)) ELSE tasksStore
        /\ UNCHANGED <<nextTaskId, tcUser, userSide>>

\* deleteAllByOwner of the repository without the deleted flag: it saves and
\* answers true whatever it removed
deleteAllByOwner_basic(ts, ownerId) ==
    LET Keep(task) == task.ownerId # ownerId
    IN  [tasks |-> SelectSeq(ts, Keep), deleted |-> TRUE]

\* The call records the owner it was given in query.userId.
ByOwner(ownerId) == [NoQuery EXCEPT !.userId = ownerId]

TaskRepository_deleteAllByOwner(ownerId) ==
    LET op == "TaskRepository.deleteAllByOwner"
        r == deleteAllByOwner(tasks, ownerId)
    IN  /\ tasks' = r.tasks
        /\ tasksStore' = IF r.deleted THEN save(tasksStore, _saveTasks(r.tasks)) ELSE tasksStore
        /\ resp' = [(IF r.deleted THEN Returned(op, 0) ELSE Failed(op, 0, "false"))
                    EXCEPT !.query = ByOwner(ownerId)]
        /\ UNCHANGED <<nextTaskId, tcUser, userSide>>

TaskRepository_deleteAllByOwner_basic(ownerId) ==
    LET op == "TaskRepository.deleteAllByOwner"
        r == deleteAllByOwner_basic(tasks, ownerId)
    IN  /\ tasks' = r.tasks
        /\ tasksStore' = save(tasksStore, _saveTasks(r.tasks))
        /\ resp' = [(IF r.deleted THEN Returned(op, 0) ELSE Failed(op, 0, "false"))
                    EXCEPT !.query = ByOwner(ownerId)]
        /\ UNCHANGED <<nextTaskId, tcUser, userSide>>

\* ------------------------------------------------------------------ TaskRepository queries
\* A query leaves the repository as it is and answers with the ids of the
\* tasks it returns, in the order it returns them, or with its statistics.
Answered(op, found, query) ==
    [Returned(op, 0) EXCEPT !.data = Ids(found), !.query = query]

Counted(op, stats, query) ==
    [Returned(op, 0) EXCEPT !.stats = stats, !.query = query]

TaskRepository_filter(filters) ==
    /\ resp' = Answered("TaskRepository.filter", filter(tasks, filters, now),
                        [NoQuery EXCEPT !.filters = filters])
    /\ UNCHANGED readOnly

TaskRepository_filter_basic(filters) ==
    /\ resp' = Answered("TaskRepository.filter", filter_basic(tasks, filters),
                        [NoQuery EXCEPT !.filters = filters])
    /\ UNCHANGED readOnly

\* sort over the array findAll() returns
TaskRepository_sort(sortBy, order) ==
    /\ resp' = Answered("TaskRepository.sort", sort(tasks, sortBy, order),
                        [NoQuery EXCEPT !.sortBy = sortBy, !.order = order])
    /\ UNCHANGED readOnly

TaskRepository_sort_basic(sortBy, order) ==
    /\ \E sorted \in sort_basic(tasks, sortBy, order) :
          resp' = Answered("TaskRepository.sort", sorted,
                           [NoQuery EXCEPT !.sortBy = sortBy, !.order = order])
    /\ UNCHANGED readOnly

TaskRepository_findOverdue ==
    /\ resp' = Answered("TaskRepository.findOverdue", findOverdue(tasks, now), NoQuery)
    /\ UNCHANGED readOnly

TaskRepository_findDueSoon(days) ==
    /\ resp' = Answered("TaskRepository.findDueSoon", findDueSoon(tasks, days, now),
                        [NoQuery EXCEPT !.days = days])
    /\ UNCHANGED readOnly

TaskRepository_getStats(userId) ==
    /\ resp' = Counted("TaskRepository.getStats", getStats(tasks, userId, now),
                       [NoQuery EXCEPT !.userId = userId])
    /\ UNCHANGED readOnly

TaskRepository_getStats_basic(userId) ==
    /\ resp' = Counted("TaskRepository.getStats", getStats_basic(tasks, userId, now),
                       [NoQuery EXCEPT !.userId = userId])
    /\ UNCHANGED readOnly

TaskRepository_getCategoryStats(userId) ==
    /\ resp' = Counted("TaskRepository.getCategoryStats",
                       getCategoryStats(tasks, userId, now),
                       [NoQuery EXCEPT !.userId = userId])
    /\ UNCHANGED readOnly

\* ------------------------------------------------------------------ EnhancedStorageManager calls
\* The entities the repositories keep
Entities == {"users", "tasks"}

Stored(entity) == IF entity = "users" THEN usersStore ELSE tasksStore

\* what the two records hold once entity holds data
StoreWith(entity, data) ==
    [users |-> IF entity = "users" THEN data ELSE usersStore,
     tasks |-> IF entity = "tasks" THEN data ELSE tasksStore]

memory == <<users, tasks, ucUser, tcUser, nextUserId, nextTaskId, now, isAvailable, metaSide, held>>

StorageManager_save(entity, data) ==
    /\ usersStore' = StoreWith(entity, save(Stored(entity), data)).users
    /\ tasksStore' = StoreWith(entity, save(Stored(entity), data)).tasks
    /\ resp' = IF isAvailable THEN Returned("EnhancedStorageManager.save", 0)
               ELSE Failed("EnhancedStorageManager.save", 0, "false")
    /\ UNCHANGED <<memory, exported>>

StorageManager_load(entity, defaultValue) ==
    /\ resp' = [Returned("EnhancedStorageManager.load", 0) EXCEPT
                   !.value = [returned |-> load(Stored(entity), defaultValue),
                              defaultValue |-> defaultValue]]
    /\ UNCHANGED <<memory, exported, usersStore, tasksStore>>

StorageManager_remove(entity) ==
    /\ usersStore' = StoreWith(entity, save(Stored(entity), <<>>)).users
    /\ tasksStore' = StoreWith(entity, save(Stored(entity), <<>>)).tasks
    /\ resp' = IF isAvailable THEN Returned("EnhancedStorageManager.remove", 0)
               ELSE Failed("EnhancedStorageManager.remove", 0, "false")
    /\ UNCHANGED <<memory, exported>>

\* clear(): every key that starts with the application's name goes
StorageManager_clear ==
    /\ usersStore' = save(usersStore, <<>>)
    /\ tasksStore' = save(tasksStore, <<>>)
    /\ resp' = IF isAvailable THEN Returned("EnhancedStorageManager.clear", 0)
               ELSE Failed("EnhancedStorageManager.clear", 0, "false")
    /\ UNCHANGED <<memory, exported>>

\* exportData(): the parsed value of every key of the application, or null
exportData ==
    IF isAvailable
    THEN Some([exportedAt |-> now,
               data |-> [e \in { e \in Entities : Stored(e) # <<>> } |-> Stored(e)]])
    ELSE None

StorageManager_exportData ==
    /\ exported' = exportData
    /\ resp' = IF isAvailable THEN Returned("EnhancedStorageManager.exportData", 0)
               ELSE Failed("EnhancedStorageManager.exportData", 0, "null")
    /\ UNCHANGED <<memory, usersStore, tasksStore>>

\* importData(importData): every key of importData.data is written; reading
\* a property of null raises inside the try block
importData(imported) ==
    IF isAvailable /\ IsSome(imported)
    THEN [ok |-> TRUE,
          users |-> IF "users" \in DOMAIN Val(imported).data
                    THEN Val(imported).data.users ELSE usersStore,
          tasks |-> IF "tasks" \in DOMAIN Val(imported).data
                    THEN Val(imported).data.tasks ELSE tasksStore]
    ELSE [ok |-> FALSE, users |-> usersStore, tasks |-> tasksStore]

StorageManager_importData ==
    LET r == importData(exported)
    IN  /\ usersStore' = r.users
        /\ tasksStore' = r.tasks
        /\ resp' = IF r.ok THEN Returned("EnhancedStorageManager.importData", 0)
                   ELSE Failed("EnhancedStorageManager.importData", 0, "false")
        /\ UNCHANGED <<memory, exported>>

\* ------------------------------------------------------------------ EnhancedStorageManager step by step
\* The frames of save on the call stack before a call raises a RangeError.
MaxDepth == 3

\* The last reading of the clock.
MaxClock == 3

version == "2.0"

\* getMetadata(): the '_metadata' record, or a fresh one
getMetadata ==
    IF isAvailable /\ IsSome(metadata) THEN Val(metadata)
    ELSE [version |-> version, createdAt |-> now, entities |-> <<>>]

\* metadata.entities[entity] = { lastUpdated: timestamp, version: this.version }
WithEntry(entities, entity, timestamp) ==
    [k \in DOMAIN entities \cup {entity} |->
        IF k = entity THEN [lastUpdated |-> timestamp, version |-> version]
        ELSE entities[k]]

\* delete metadata.entities[entity]
WithoutEntry(entities, entity) ==
    [k \in DOMAIN entities \ {entity} |-> entities[k]]

\* a call that is under way: save stands before _updateMetadata or before its
\* return; remove and the constructor stand before their return
Frame(method, entity, data, pc) ==
    [method |-> method, entity |-> entity, data |-> data, timestamp |-> now,
     before |-> getMetadata.entities, pc |-> pc]

Top == stack[Len(stack)]

Pop == SubSeq(stack, 1, Len(stack) - 1)

Entered(op) == [NoResp EXCEPT !.op = op, !.error = "under way"]

\* what the caller of the outermost call gets
Outcome(frame, success) ==
    [NoResp EXCEPT !.op = "EnhancedStorageManager." \o frame.method,
                   !.success = success,
                   !.error = IF success THEN "" ELSE "false",
                   !.value = [entity |-> frame.entity, data |-> frame.data,
                              timestamp |-> frame.timestamp, before |-> frame.before]]

\* save('_metadata', m) as far as its setItem
saveMetadata(m) ==
    /\ metadata' = Some(m)
    /\ stamps' = [stamps EXCEPT !["_metadata"] = now]

\* save(entity, data) as far as its setItem
StorageManager_save_begin(entity, data) ==
    /\ stack = <<>>
    /\ IF ~isAvailable
       THEN /\ resp' = Outcome(Frame("save", entity, data, "return"), FALSE)
            /\ UNCHANGED <<usersStore, tasksStore, stamps, stack>>
       ELSE /\ usersStore' = StoreWith(entity, data).users
            /\ tasksStore' = StoreWith(entity, data).tasks
            /\ stamps' = [stamps EXCEPT ![entity] = now]
            /\ stack' = <<Frame("save", entity, data, "_updateMetadata")>>
            /\ resp' = Entered("EnhancedStorageManager.save")
    /\ UNCHANGED <<users, tasks, ucUser, tcUser, nextUserId, nextTaskId, now,
                   isAvailable, exported, held, metadata>>

\* _updateMetadata(entity, timestamp) of the save on top: the entry is set and
\* save('_metadata', metadata) runs as far as its setItem
StorageManager_updateMetadata ==
    /\ stack # <<>>
    /\ Top.pc = "_updateMetadata"
    /\ Len(stack) < MaxDepth
    /\ LET m == [getMetadata EXCEPT
                    !.entities = WithEntry(@, Top.entity, Top.timestamp)]
       IN  /\ saveMetadata(m)
           /\ stack' = Append([stack EXCEPT ![Len(stack)].pc = "return"],
                              Frame("save", "_metadata", m, "_updateMetadata"))
    /\ resp' = Entered("EnhancedStorageManager._updateMetadata")
    /\ UNCHANGED <<users, usersStore, tasks, tasksStore, ucUser, tcUser,
                   nextUserId, nextTaskId, now, isAvailable, exported, held>>

\* The stack is full: the RangeError raised under _updateMetadata is caught
\* by the save on top, which returns false.
StorageManager_RangeError ==
    /\ stack # <<>>
    /\ Top.pc = "_updateMetadata"
    /\ Len(stack) = MaxDepth
    /\ stack' = Pop
    /\ resp' = IF Pop = <<>> THEN Outcome(Top, FALSE)
               ELSE Entered("EnhancedStorageManager.save")
    /\ UNCHANGED <<users, usersStore, tasks, tasksStore, ucUser, tcUser,
                   nextUserId, nextTaskId, now, isAvailable, exported, held,
                   metadata, stamps>>

\* The stack is full and the RangeError is raised inside the load of
\* getMetadata, whose catch answers the default: _updateMetadata goes on with
\* a fresh record and its save, which gets as far as setItem, returns false.
StorageManager_RangeError_inLoad ==
    /\ stack # <<>>
    /\ Top.pc = "_updateMetadata"
    /\ Len(stack) = MaxDepth
    /\ saveMetadata([version |-> version, createdAt |-> now,
                     entities |-> WithEntry(<<>>, Top.entity, Top.timestamp)])
    /\ stack' = [stack EXCEPT ![Len(stack)].pc = "return"]
    /\ resp' = Entered("EnhancedStorageManager._updateMetadata")
    /\ UNCHANGED <<users, usersStore, tasks, tasksStore, ucUser, tcUser,
                   nextUserId, nextTaskId, now, isAvailable, exported, held>>

\* the call on top returns true
StorageManager_return ==
    /\ stack # <<>>
    /\ Top.pc = "return"
    /\ stack' = Pop
    /\ resp' = IF Pop = <<>> THEN Outcome(Top, TRUE)
               ELSE Entered("EnhancedStorageManager." \o Top.method)
    /\ UNCHANGED <<users, usersStore, tasks, tasksStore, ucUser, tcUser,
                   nextUserId, nextTaskId, now, isAvailable, exported, held,
                   metadata, stamps>>

\* remove(entity) as far as the setItem of the save of _removeFromMetadata
StorageManager_remove_begin(entity) ==
    /\ stack = <<>>
    /\ IF ~isAvailable
       THEN /\ resp' = Outcome(Frame("remove", entity, <<>>, "return"), FALSE)
            /\ UNCHANGED <<usersStore, tasksStore, metadata, stamps, stack>>
       ELSE LET m == [getMetadata EXCEPT !.entities = WithoutEntry(@, entity)]
            IN  /\ usersStore' = StoreWith(entity, <<>>).users
                /\ tasksStore' = StoreWith(entity, <<>>).tasks
                /\ metadata' = Some(m)
                /\ stamps' = [stamps EXCEPT ![entity] = NULL, !["_metadata"] = now]
                /\ stack' = << Frame("remove", entity, <<>>, "return"),
                               Frame("save", "_metadata", m, "_updateMetadata") >>
                /\ resp' = Entered("EnhancedStorageManager.remove")
    /\ UNCHANGED <<users, tasks, ucUser, tcUser, nextUserId, nextTaskId, now,
                   isAvailable, exported, held>>

\* exists(entity)
exists(entity) == isAvailable /\ stamps[entity] # NULL

\* new EnhancedStorageManager(): _initializeApp saves a fresh '_metadata'
\* record when there is none
StorageManager_new ==
    /\ stack = <<>>
    /\ IF exists("_metadata") \/ ~isAvailable
       THEN /\ resp' = Outcome(Frame("constructor", "_metadata", <<>>, "return"), TRUE)
            /\ UNCHANGED <<metadata, stamps, stack>>
       ELSE /\ saveMetadata(getMetadata)
            /\ stack' = << Frame("constructor", "_metadata", <<>>, "return"),
                           Frame("save", "_metadata", getMetadata, "_updateMetadata") >>
            /\ resp' = Entered("EnhancedStorageManager.constructor")
    /\ UNCHANGED <<users, usersStore, tasks, tasksStore, ucUser, tcUser,
                   nextUserId, nextTaskId, now, isAvailable, exported, held>>

\* the clock moves on
Tick ==
    /\ now < MaxClock
    /\ now' = now + 1
    /\ UNCHANGED <<users, usersStore, tasks, tasksStore, ucUser, tcUser,
                   nextUserId, nextTaskId, isAvailable, exported, metaSide, held, resp>>

\* new TaskRepository(storage) / new UserRepository(storage): the index is
\* rebuilt from the store
TaskRepository_new ==
    /\ tasks' = _loadTasks(load(tasksStore, <<>>), now)
    /\ resp' = Returned("TaskRepository.constructor", 0)
    /\ UNCHANGED <<tasksStore, nextTaskId, tcUser, userSide>>

UserRepository_new ==
    /\ users' = _loadUsers(load(usersStore, <<>>), now)
    /\ resp' = Returned("UserRepository.constructor", 0)
    /\ UNCHANGED <<usersStore, nextUserId, ucUser, taskSide>>

\* ------------------------------------------------------------------ application start
a_x_c == <<"a", "@", "x", ".", "c">>
b_x_c == <<"b", "@", "x", ".", "c">>

\* createDemoUserIfNeeded: two users are created when the repository has none
DemoUser1 == [username |-> <<"a">>, email |-> a_x_c, fullName |-> <<"N">>]
DemoUser2 == [username |-> <<"b">>, email |-> b_x_c, fullName |-> <<>>]

WithDemoUsers(us, id, t) ==
    IF us # <<>> THEN us
    ELSE createUser(createUser(us, DemoUser1, id, t).users, DemoUser2, id + 1, t).users

\* initializeApp: repositories rebuilt from the store, controllers with no
\* current user
initializeApp ==
    LET loaded == _loadUsers(load(usersStore, <<>>), now)
    IN  /\ users' = WithDemoUsers(loaded, nextUserId, now)
        /\ usersStore' = IF loaded = <<>> THEN save(usersStore, _saveUsers(users')) ELSE usersStore
        /\ nextUserId' = IF loaded = <<>> THEN nextUserId + 2 ELSE nextUserId
        /\ tasks' = _loadTasks(load(tasksStore, <<>>), now)
        /\ ucUser' = NULL
        /\ tcUser' = NULL
        /\ resp' = Returned("initializeApp", 0)
        /\ UNCHANGED <<tasksStore, nextTaskId, now, storeSide>>

\* ------------------------------------------------------------------ user inputs
Usernames == { <<"a">>, <<"A">>, <<" ", "a">>, <<"b">>, <<>>, <<" ">> }

UserDatas ==
    { [username |-> <<"a">>, email |-> a_x_c, fullName |-> <<" ", "N">>],
      [username |-> <<"b">>, email |-> b_x_c, fullName |-> <<>>],
      [username |-> <<"A">>, email |-> b_x_c, fullName |-> <<>>],
      [username |-> <<" ", "a">>, email |-> b_x_c, fullName |-> <<>>],
      [username |-> <<"b">>, email |-> <<"A", "@", "x", ".", "c">>, fullName |-> <<>>],
      [username |-> <<"b">>, email |-> <<"a", "@", "x">>, fullName |-> <<>>],
      [username |-> <<" ">>, email |-> b_x_c, fullName |-> <<>>],
      [username |-> <<"b">>, email |-> <<>>, fullName |-> <<>>] }

NoUserUpdates ==
    [fullName |-> None, email |-> None, preferences |-> None, isActive |-> None,
     \* a key update has no line for
     username |-> None]

UserUpdates ==
    { [NoUserUpdates EXCEPT !.email = Some(a_x_c)],
      [NoUserUpdates EXCEPT !.email = Some(<<"a", "@", "x">>)],
      [NoUserUpdates EXCEPT !.fullName = Some(<<"N">>),
                            !.email = Some(<<"a", "@", "x">>)],
      [NoUserUpdates EXCEPT !.isActive = Some(FALSE)],
      [NoUserUpdates EXCEPT !.isActive = Some(TRUE)] }

UserIds == 1..(MaxUsers + 1)

\* ------------------------------------------------------------------ specification: users
Init ==
    /\ users = <<>>
    /\ usersStore = <<>>
    /\ tasks = <<>>
    /\ tasksStore = <<>>
    /\ ucUser = NULL
    /\ tcUser = NULL
    /\ nextUserId = 1
    /\ nextTaskId = 1
    /\ now = 1
    /\ isAvailable = TRUE
    /\ exported = None
    /\ NoCallsYet
    /\ resp = NoResp

NextUser ==
    \/ \E d \in UserDatas : UserRepository_create(d)
    \/ \E id \in UserIds, u \in UserUpdates : UserRepository_update(id, u)
    \/ \E id \in UserIds : UserRepository_delete(id)
    \/ \E id \in UserIds : UserRepository_hardDelete(id)
    \/ \E id \in UserIds : UserRepository_recordLogin(id)
    \/ \E d \in UserDatas : UserController_register(d)
    \/ \E n \in Usernames : UserController_login(n)
    \/ UserController_logout
    \/ \E u \in UserUpdates : UserController_updateProfile(u)

SpecUser == Init /\ [][NextUser]_vars

\* ------------------------------------------------------------------ task inputs
T == <<"T">>
H == <<"H">>

NoTaskData ==
    [title |-> T, description |-> <<>>, ownerId |-> None, assigneeId |-> None,
     category |-> None, priority |-> None, status |-> None, tags |-> None,
     dueDate |-> None, estimatedHours |-> None]

\* ids 1 and 2 are the users the application starts with; 3 is nobody's id
TaskUserIds == {1, 2, 3}

TaskDatas ==
    { NoTaskData,
      [NoTaskData EXCEPT !.title = <<" ">>],
      [NoTaskData EXCEPT !.ownerId = Some(2)],
      [NoTaskData EXCEPT !.category = Some("invalid")] }
    \cup { [NoTaskData EXCEPT !.assigneeId = Some(u)] : u \in TaskUserIds }

TaskUpdates ==
    { [NoTaskUpdates EXCEPT !.category = Some("invalid")],
      [NoTaskUpdates EXCEPT !.assigneeId = Some(2)],
      [NoTaskUpdates EXCEPT !.assigneeId = Some(3)],
      [NoTaskUpdates EXCEPT !.ownerId = Some(2)] }

OwnedTaskData == [NoTaskData EXCEPT !.ownerId = Some(1)]

RepoTaskDatas ==
    { OwnedTaskData,
      NoTaskData,
      [OwnedTaskData EXCEPT !.title = <<" ">>],
      [OwnedTaskData EXCEPT !.status = Some("completed")],
      [OwnedTaskData EXCEPT !.category = Some("")],
      [OwnedTaskData EXCEPT !.category = Some("invalid")],
      [OwnedTaskData EXCEPT !.priority = Some("invalid")],
      [OwnedTaskData EXCEPT !.assigneeId = Some(2), !.priority = Some("high")] }

RepoTaskUpdates ==
    { [NoTaskUpdates EXCEPT !.title = Some(H)],
      [NoTaskUpdates EXCEPT !.title = Some(H), !.category = Some("invalid")],
      [NoTaskUpdates EXCEPT !.category = Some("work")],
      [NoTaskUpdates EXCEPT !.priority = Some("invalid")],
      [NoTaskUpdates EXCEPT !.status = Some("completed")],
      [NoTaskUpdates EXCEPT !.status = Some("pending")],
      [NoTaskUpdates EXCEPT !.status = Some("invalid")],
      \* assigneeId: null, the falsy id, is 0
      [NoTaskUpdates EXCEPT !.assigneeId = Some(0)],
      [NoTaskUpdates EXCEPT !.ownerId = Some(2), !.priority = Some("high")] }

RepoUserUpdates ==
    { [NoUserUpdates EXCEPT !.fullName = Some(<<"N">>)],
      [NoUserUpdates EXCEPT !.isActive = Some(FALSE)],
      [NoUserUpdates EXCEPT !.username = Some(<<"b">>), !.fullName = Some(<<"N">>)] }

\* the second user the application starts with, and nobody's id
RepoUserIds == {2, 3}

TaskFilters ==
    { NoFilters,
      [NoFilters EXCEPT !.category = Some("work"), !.ownerId = Some(2),
                        !.sortBy = Some("priority"), !.sortOrder = Some("asc")] }

Queries == { <<"h">>, <<>> }

TaskIds == 1..(MaxTasks + 1)

\* ------------------------------------------------------------------ specification: tasks
\* The application as initializeApp leaves it over an empty store.
InitTask ==
    /\ users = WithDemoUsers(<<>>, 1, 1)
    /\ usersStore = _saveUsers(users)
    /\ tasks = <<>>
    /\ tasksStore = <<>>
    /\ ucUser = NULL
    /\ tcUser = NULL
    /\ nextUserId = 3
    /\ nextTaskId = 1
    /\ now = 1
    /\ isAvailable = TRUE
    /\ exported = None
    /\ NoCallsYet
    /\ resp = NoResp

\* the two users the application starts with
OwnerIds == {1, 2}

\* the repository on its own
NextRepo ==
    \/ \E d \in RepoTaskDatas : TaskRepository_create(d)
    \/ \E id \in TaskIds, u \in RepoTaskUpdates : TaskRepository_update(id, u)
    \/ \E id \in TaskIds, u \in RepoTaskUpdates : TaskRepository_update_basic(id, u)
    \/ \E id \in RepoUserIds, u \in RepoUserUpdates : UserRepository_update(id, u)
    \/ \E id \in TaskIds : TaskRepository_delete(id)
    \/ \E ownerId \in OwnerIds : TaskRepository_deleteAllByOwner(ownerId)
    \/ \E ownerId \in OwnerIds : TaskRepository_deleteAllByOwner_basic(ownerId)
    \/ initializeApp

SpecRepo == InitTask /\ [][NextRepo]_vars

\* the controller over the repositories
NextTask ==
    \/ \E u \in TaskUserIds : TaskController_setCurrentUser(u)
    \/ \E d \in TaskDatas : TaskController_createTask(d)
    \/ \E id \in TaskIds : TaskController_getTask(id)
    \/ \E id \in TaskIds, u \in TaskUpdates : TaskController_updateTask(id, u)
    \/ \E id \in TaskIds : TaskController_deleteTask(id)
    \/ \E id \in TaskIds, c \in {"work"} : TaskController_updateTaskCategory(id, c)
    \/ \E id \in TaskIds : TaskController_toggleTaskStatus(id)
    \/ \E id \in TaskIds : TaskController_toggleTaskStatus_direct(id)
    \/ \E f \in TaskFilters : TaskController_getTasks(f)
    \/ \E q \in Queries : TaskController_searchTasks(q)
    \/ TaskController_getOverdueTasks
    \/ \E days \in {3} : TaskController_getTasksDueSoon(days)
    \/ TaskController_getTaskStats
    \/ TaskController_getCategoryStats
    \/ TaskController_clearAllTasks
    \/ initializeApp

SpecTask == InitTask /\ [][NextTask]_vars

\* ------------------------------------------------------------------ specification: the application's session
\* handleLogin: the trimmed input goes to UserController.login; on success
\* the same user is bound in TaskController
handleLogin(input) ==
    LET op == "handleLogin"
        username == trim(input)
        i == findByUsername(users, username)
        called == [NoResp EXCEPT !.op = op, !.username = username]
    IN  /\ IF username = <<>>
           THEN /\ resp' = [called EXCEPT !.error = "Username wajib diisi"]
                /\ UNCHANGED <<users, usersStore, ucUser, tcUser>>
           ELSE IF i = 0
           THEN /\ resp' = [called EXCEPT !.error = "User tidak ditemukan"]
                /\ UNCHANGED <<users, usersStore, ucUser, tcUser>>
           ELSE IF ~users[i].isActive
           THEN /\ resp' = [called EXCEPT !.error = "Akun tidak aktif", !.id = users[i].id]
                /\ UNCHANGED <<users, usersStore, ucUser, tcUser>>
           ELSE /\ users' = [users EXCEPT ![i].lastLoginAt = now]
                /\ usersStore' = save(usersStore, _saveUsers(users'))
                /\ ucUser' = users[i].id
                /\ tcUser' = IF HasId(users', users[i].id) THEN users[i].id ELSE NULL
                /\ resp' = [called EXCEPT !.success = TRUE, !.id = users[i].id]
        /\ UNCHANGED <<tasks, tasksStore, nextUserId, nextTaskId, now, storeSide>>

\* handleLogout: UserController.logout and the application's own handle;
\* TaskController is not called
handleLogout ==
    /\ ucUser' = NULL
    /\ resp' = Returned("handleLogout", 0)
    /\ UNCHANGED <<users, usersStore, nextUserId, taskSide>>

AppTaskDatas == { d \in TaskDatas : d.assigneeId = None /\ d.ownerId = None }

NextApp ==
    \/ \E n \in Usernames : handleLogin(n)
    \/ handleLogout
    \/ \E id \in UserIds : UserRepository_delete(id)
    \/ \E d \in AppTaskDatas : TaskController_createTask(d)
    \/ \E id \in TaskIds : TaskController_getTask(id)
    \/ \E id \in TaskIds : TaskController_deleteTask(id)

SpecApp == InitTask /\ [][NextApp]_vars

\* ------------------------------------------------------------------ specification: references
RefTaskDatas ==
    { OwnedTaskData,
      [NoTaskData EXCEPT !.ownerId = Some(2), !.assigneeId = Some(1)] }

RefTaskUpdates ==
    { [NoTaskUpdates EXCEPT !.assigneeId = Some(u)] : u \in TaskUserIds }

\* both repositories and the controller's writes, over the users the
\* application starts with
NextRef ==
    \/ \E d \in RefTaskDatas : TaskRepository_create(d)
    \/ \E id \in TaskIds, u \in RefTaskUpdates : TaskRepository_update(id, u)
    \/ \E id \in TaskIds : TaskRepository_delete(id)
    \/ \E id \in TaskUserIds : UserRepository_delete(id)
    \/ \E id \in TaskUserIds : UserRepository_hardDelete(id)
    \/ \E u \in TaskUserIds : TaskController_setCurrentUser(u)
    \/ \E d \in TaskDatas : TaskController_createTask(d)
    \/ \E id \in TaskIds, u \in TaskUpdates : TaskController_updateTask(id, u)

SpecRef == InitTask /\ [][NextRef]_vars

\* ------------------------------------------------------------------ specification: toggling
ToggleTaskDatas ==
    { [NoTaskData EXCEPT !.status = Some(st)] : st \in validStatuses }
    \cup { [NoTaskData EXCEPT !.assigneeId = Some(2)] }

\* tasks created in every status, then toggled
NextToggle ==
    \/ \E u \in TaskUserIds : TaskController_setCurrentUser(u)
    \/ \E d \in ToggleTaskDatas : TaskController_createTask(d)
    \/ \E id \in TaskIds : TaskController_toggleTaskStatus(id)
    \/ \E id \in TaskIds : TaskController_toggleTaskStatus_direct(id)
    \/ \E id \in TaskIds : TaskController_deleteTask(id)

SpecToggle == InitTask /\ [][NextToggle]_vars

\* ------------------------------------------------------------------ specification: queries
\* The instant the queries run at; the tasks were created before it.
QueryNow == 10 * DayMs

X == <<"x">>
Y == <<"y">>

\* Tasks with and without a due date, due before, at and after QueryNow, of the
\* two users, in several categories, priorities and statuses, with and without tags.
QueryTaskDatas ==
    { OwnedTaskData,
      [OwnedTaskData EXCEPT !.category = Some("work"), !.priority = Some("high"),
                            !.dueDate = Some(QueryNow - 1), !.tags = Some(<<X>>)],
      [OwnedTaskData EXCEPT !.category = Some("work"), !.assigneeId = Some(2),
                            !.status = Some("completed"),
                            !.dueDate = Some(QueryNow - 1)],
      [OwnedTaskData EXCEPT !.title = <<"h">>, !.status = Some("in-progress"),
                            !.dueDate = Some(QueryNow)],
      [OwnedTaskData EXCEPT !.category = Some("health"), !.status = Some("cancelled"),
                            !.dueDate = Some(QueryNow + DayMs)],
      [NoTaskData EXCEPT !.ownerId = Some(2), !.title = H,
                         !.category = Some("study"), !.priority = Some("urgent"),
                         !.dueDate = Some(QueryNow + 2 * DayMs)],
      [NoTaskData EXCEPT !.ownerId = Some(2), !.assigneeId = Some(1),
                         !.priority = Some("low"), !.tags = Some(<<X, Y>>),
                         !.dueDate = Some(QueryNow + 3 * DayMs + 1)],
      [NoTaskData EXCEPT !.ownerId = Some(2), !.category = Some("other"),
                         !.status = Some("blocked"),
                         !.dueDate = Some(QueryNow - DayMs - 1)] }

QueryFilters ==
    { NoFilters,
      [NoFilters EXCEPT !.ownerId = Some(1)],
      [NoFilters EXCEPT !.assigneeId = Some(2)],
      [NoFilters EXCEPT !.category = Some("work")],
      [NoFilters EXCEPT !.status = Some("pending")],
      [NoFilters EXCEPT !.priority = Some("high")],
      [NoFilters EXCEPT !.overdue = Some(TRUE)],
      [NoFilters EXCEPT !.dueSoon = Some(TRUE)],
      [NoFilters EXCEPT !.tags = Some(<<X>>)],
      [NoFilters EXCEPT !.tags = Some(<<Y, <<"z">> >>)],
      [NoFilters EXCEPT !.ownerId = Some(1), !.category = Some("work"),
                        !.overdue = Some(TRUE)],
      [NoFilters EXCEPT !.assigneeId = Some(1), !.dueSoon = Some(TRUE)] }

SortKeys == {"title", "priority", "dueDate", "createdAt", "updatedAt"}
SortOrders == {"asc", "desc"}
DueSoonDays == {1, 3}

\* userId: no user (null, the falsy id 0), the two users, and nobody's id
StatsUserIds == {0} \cup TaskUserIds

\* The repository holds up to MaxLen tasks, created one millisecond after the
\* other and saved; the clock then stands at QueryNow.
InitQuery ==
    /\ users = WithDemoUsers(<<>>, 1, 1)
    /\ usersStore = _saveUsers(users)
    /\ \E n \in 0..MaxLen :
          \E ds \in [1..n -> QueryTaskDatas] :
              tasks = [i \in 1..n |->
                          NewTask(i, ds[i].title, ds[i].description, ds[i].ownerId,
                                  ds[i], i)]
    /\ tasksStore = _saveTasks(tasks)
    /\ ucUser = NULL
    /\ tcUser = NULL
    /\ nextUserId = 3
    /\ nextTaskId = Len(tasks) + 1
    /\ now = QueryNow
    /\ isAvailable = TRUE
    /\ exported = None
    /\ NoCallsYet
    /\ resp = NoResp

NextQuery ==
    \/ \E f \in QueryFilters : TaskRepository_filter(f)
    \/ \E f \in QueryFilters : TaskRepository_filter_basic(f)
    \/ \E k \in SortKeys, o \in SortOrders : TaskRepository_sort(k, o)
    \/ \E k \in SortKeys, o \in SortOrders : TaskRepository_sort_basic(k, o)
    \/ TaskRepository_findOverdue
    \/ \E days \in DueSoonDays : TaskRepository_findDueSoon(days)
    \/ \E u \in StatsUserIds : TaskRepository_getStats(u)
    \/ \E u \in StatsUserIds : TaskRepository_getStats_basic(u)
    \/ \E u \in StatsUserIds : TaskRepository_getCategoryStats(u)

SpecQuery == InitQuery /\ [][NextQuery]_vars

\* ------------------------------------------------------------------ specification: storage
StoreTaskDatas == { OwnedTaskData }

StoreTaskUpdates ==
    { [NoTaskUpdates EXCEPT !.title = Some(H)],
      [NoTaskUpdates EXCEPT !.assigneeId = Some(0)] }

\* what the application saves under an entity: the serialized index
StoreDatas(entity) ==
    { IF entity = "users" THEN _saveUsers(users) ELSE _saveTasks(tasks) }

\* the user that is deactivated, and nobody's id
StoreUserIds == {2, 3}

LoadDefaults == { <<>>, <<0>> }

\* The application over a store that is available or not
InitStore ==
    /\ isAvailable \in BOOLEAN
    /\ users = WithDemoUsers(<<>>, 1, 1)
    /\ usersStore = IF isAvailable THEN _saveUsers(users) ELSE <<>>
    /\ tasks = <<>>
    /\ tasksStore = <<>>
    /\ ucUser = NULL
    /\ tcUser = NULL
    /\ nextUserId = 3
    /\ nextTaskId = 1
    /\ now = 1
    /\ exported = None
    /\ NoCallsYet
    /\ resp = NoResp

NextStore ==
    \/ \E d \in StoreTaskDatas : TaskRepository_create(d)
    \/ \E id \in TaskIds, u \in StoreTaskUpdates : TaskRepository_update(id, u)
    \/ \E id \in TaskIds : TaskRepository_delete(id)
    \/ \E id \in StoreUserIds : UserRepository_delete(id)
    \/ \E e \in Entities : \E data \in StoreDatas(e) : StorageManager_save(e, data)
    \/ \E e \in Entities, d \in LoadDefaults : StorageManager_load(e, d)
    \/ \E e \in Entities : StorageManager_remove(e)
    \/ StorageManager_clear
    \/ StorageManager_exportData
    \/ StorageManager_importData
    \/ TaskRepository_new
    \/ UserRepository_new

SpecStore == InitStore /\ [][NextStore]_vars

\* ------------------------------------------------------------------ specification: hours and tags
\* The hours a task may accumulate before addTimeSpent is held back.
MaxHours == 2

FieldTaskDatas ==
    { OwnedTaskData,
      [OwnedTaskData EXCEPT !.estimatedHours = Some(2)],
      [OwnedTaskData EXCEPT !.estimatedHours = Some(0 - 1)],
      [OwnedTaskData EXCEPT !.tags = Some(<<X, Y>>)],
      [OwnedTaskData EXCEPT !.tags = Some(<<X, X>>)] }

FieldTaskUpdates ==
    { [NoTaskUpdates EXCEPT !.estimatedHours = Some(1)],
      [NoTaskUpdates EXCEPT !.estimatedHours = Some(0 - 1)],
      [NoTaskUpdates EXCEPT !.addTimeSpent = Some(1)],
      [NoTaskUpdates EXCEPT !.addTimeSpent = Some(0 - 1)],
      [NoTaskUpdates EXCEPT !.addTag = Some(X)],
      [NoTaskUpdates EXCEPT !.addTag = Some(Y)],
      [NoTaskUpdates EXCEPT !.addTag = Some(<<>>)],
      [NoTaskUpdates EXCEPT !.removeTag = Some(X)] }

NextFields ==
    \/ \E d \in FieldTaskDatas : TaskRepository_create(d)
    \/ \E id \in TaskIds, u \in FieldTaskUpdates :
          /\ \A i \in 1..Len(tasks) : tasks[i].actualHours < MaxHours
          /\ TaskRepository_update(id, u)
    \/ \E id \in TaskIds : TaskRepository_delete(id)
    \/ TaskRepository_new

SpecFields == InitTask /\ [][NextFields]_vars

\* ------------------------------------------------------------------ containers handed out and taken in
\* A container a caller holds: the field of the entity it came from or went
\* into, and whether it is the very object the entity keeps (shared) or
\* another one with the same content.
Copy(kind, entity, field) ==
    [kind |-> kind, id |-> entity.id, field |-> field, shared |-> FALSE]

Same(kind, entity, field) ==
    [kind |-> kind, id |-> entity.id, field |-> field, shared |-> TRUE]

Containers == {"tags", "notes", "attachments"}

\* get tags() { return [...this._tags]; } and the getters of notes and attachments
EnhancedTask_get(task, field) == Copy("task", task, field)

\* toJSON(): tags: this._tags, notes: this._notes, attachments: this._attachments
EnhancedTask_toJSON(task, field) == Same("task", task, field)

\* this._tags = Array.isArray(options.tags) ? options.tags : []
EnhancedTask_tagsOption(task) == Same("task", task, "tags")

\* get preferences() { return { ...this._preferences }; }
User_preferences(user) == Copy("user", user, "preferences")

\* toJSON(): preferences: this._preferences
User_toJSON(user) == Same("user", user, "preferences")

Holding(op, handle) ==
    /\ held' = Some(handle)
    /\ resp' = Returned(op, handle.id)
    /\ UNCHANGED <<users, usersStore, tasks, tasksStore, ucUser, tcUser, nextUserId,
                   nextTaskId, now, isAvailable, exported, metaSide>>

\* the caller reads a container of a task of the repository
Caller_get(id, field) ==
    /\ HasId(tasks, id)
    /\ Holding("EnhancedTask." \o field, EnhancedTask_get(tasks[IndexOfId(tasks, id)], field))

Caller_toJSON(id, field) ==
    /\ HasId(tasks, id)
    /\ Holding("EnhancedTask.toJSON", EnhancedTask_toJSON(tasks[IndexOfId(tasks, id)], field))

\* the caller still has the tags array it has just passed to create
Caller_keepsTags ==
    /\ resp.op = "TaskRepository.create" /\ resp.success
    /\ IsSome(resp.value)
    /\ Holding("TaskRepository.create: tags", EnhancedTask_tagsOption(tasks[IndexOfId(tasks, resp.id)]))

Caller_preferences(id) ==
    /\ HasId(users, id)
    /\ Holding("User.preferences", User_preferences(users[IndexOfId(users, id)]))

Caller_userToJSON(id) ==
    /\ HasId(users, id)
    /\ Holding("User.toJSON", User_toJSON(users[IndexOfId(users, id)]))

\* the content of a container after the caller's change: an array is emptied
\* (array.length = 0), the preferences get theme 'dark'
Changed(field, content) ==
    IF field = "preferences" THEN [content EXCEPT !.theme = "dark"] ELSE <<>>

\* The caller changes the container it holds; a container that is the
\* entity's own changes the entity with it.
Caller_change ==
    /\ IsSome(held)
    /\ LET h == Val(held)
           i == IF h.kind = "task" THEN IndexOfId(tasks, h.id) ELSE IndexOfId(users, h.id)
       IN  /\ tasks' = IF h.kind = "task" /\ h.shared /\ i # 0
                       THEN [tasks EXCEPT ![i][h.field] = Changed(h.field, @)]
                       ELSE tasks
           /\ users' = IF h.kind = "user" /\ h.shared /\ i # 0
                       THEN [users EXCEPT ![i][h.field] = Changed(h.field, @)]
                       ELSE users
           /\ resp' = Returned("caller.change", h.id)
    /\ held' = None
    /\ UNCHANGED <<usersStore, tasksStore, ucUser, tcUser, nextUserId,
                   nextTaskId, now, isAvailable, exported, metaSide>>

\* ------------------------------------------------------------------ specification: containers
AliasTaskDatas ==
    { OwnedTaskData,
      [OwnedTaskData EXCEPT !.tags = Some(<<X>>)] }

AliasTaskUpdates ==
    { [NoTaskUpdates EXCEPT !.addTag = Some(Y)],
      [NoTaskUpdates EXCEPT !.addNote = Some(<<"n">>)] }

NextAlias ==
    \/ \E d \in AliasTaskDatas : TaskRepository_create(d)
    \/ \E id \in TaskIds, u \in AliasTaskUpdates :
          \* a task takes one note
          /\ \A i \in 1..Len(tasks) : tasks[i].notes = <<>>
          /\ TaskRepository_update(id, u)
    \/ \E id \in TaskIds : TaskRepository_delete(id)
    \/ \E id \in TaskIds, field \in Containers : Caller_get(id, field)
    \/ \E id \in TaskIds, field \in Containers : Caller_toJSON(id, field)
    \/ Caller_keepsTags
    \/ \E id \in OwnerIds : Caller_preferences(id)
    \/ \E id \in OwnerIds : Caller_userToJSON(id)
    \/ Caller_change

SpecAlias == InitTask /\ [][NextAlias]_vars

\* ------------------------------------------------------------------ specification: lists
ListTaskDatas ==
    { [NoTaskData EXCEPT !.category = Some("work")],
      [NoTaskData EXCEPT !.assigneeId = Some(2), !.priority = Some("high")],
      [NoTaskData EXCEPT !.ownerId = Some(2), !.title = H] }

ListCategories == {"work", "personal", "invalid"}

NextList ==
    \/ \E u \in OwnerIds : TaskController_setCurrentUser(u)
    \/ \E d \in ListTaskDatas : TaskController_createTask(d)
    \/ \E f \in TaskFilters : TaskController_getTasks(f)
    \/ \E q \in Queries : TaskController_searchTasks(q)
    \/ TaskController_getOverdueTasks
    \/ \E days \in {3} : TaskController_getTasksDueSoon(days)
    \/ \E c \in ListCategories : TaskController_getTasksByCategory(c)
    \/ \E c \in ListCategories : TaskController_getTasksByCategory_sorted(c)

SpecList == InitTask /\ [][NextList]_vars

\* ------------------------------------------------------------------ specification: the manager's steps
MetaDatas == { <<>>, <<0>> }

\* localStorage before the application first runs
InitMeta ==
    /\ isAvailable \in BOOLEAN
    /\ users = <<>>
    /\ usersStore = <<>>
    /\ tasks = <<>>
    /\ tasksStore = <<>>
    /\ ucUser = NULL
    /\ tcUser = NULL
    /\ nextUserId = 1
    /\ nextTaskId = 1
    /\ now = 1
    /\ exported = None
    /\ NoCallsYet
    /\ resp = NoResp

NextMeta ==
    \/ StorageManager_new
    \/ \E e \in Entities, data \in MetaDatas : StorageManager_save_begin(e, data)
    \/ \E e \in Entities : StorageManager_remove_begin(e)
    \/ StorageManager_updateMetadata
    \/ StorageManager_RangeError
    \/ StorageManager_RangeError_inLoad
    \/ StorageManager_return
    \/ Tick

SpecMeta == InitMeta /\ [][NextMeta]_vars

\* ================================================================== claims

\* C1: after any sequence of UserRepository and UserController calls no two
\* users of the repository, active or not, share a username, and no two share
\* an email.
C1_UniqueUsernameAndEmail ==
    \A i, j \in 1..Len(users) :
        i # j => /\ users[i].username # users[j].username
                 /\ users[i].email # users[j].email

\* The normalization User applies to a username or an email it stores.
Normalized(s) == toLowerCase(trim(s))

DuplicateErrors == {"Username sudah digunakan", "Email sudah digunakan"}

\* C7: UserRepository.create with a username or an email that, normalized,
\* equals that of a user already in the repository raises a duplicate error,
\* adds no user and leaves the users and the persisted 'users' record as
\* they were.
C7_DuplicateCreateRejected ==
    [][ ( /\ resp'.op = "UserRepository.create"
          /\ \E i \in 1..Len(users) :
                \/ users[i].username = Normalized(resp'.username)
                \/ users[i].email = Normalized(resp'.email) )
        => ( /\ resp'.threw
             /\ resp'.error \in DuplicateErrors
             /\ users' = users
             /\ usersStore' = usersStore ) ]_vars

\* C2: for every task of the repository, after construction, after any sequence
\* of status updates, and after a reload from the store, completedAt is non-null
\* exactly when status is 'completed'.
C2_CompletedAtIffCompleted ==
    \A i \in 1..Len(tasks) :
        (tasks[i].completedAt # NULL) <=> (tasks[i].status = "completed")

\* C3: when TaskRepository.update raises a validation error, the task in memory
\* and the persisted collection are exactly as they were before the call.
C3_FailedUpdateChangesNothing ==
    [][ ( /\ resp'.op = "TaskRepository.update"
          /\ resp'.threw )
        => ( /\ tasks' = tasks
             /\ tasksStore' = tasksStore ) ]_vars

MutatingOps ==
    { "TaskController.updateTask", "TaskController.updateTaskCategory",
      "TaskController.toggleTaskStatus", "TaskController.deleteTask" }

\* C4: no TaskController operation that changes or removes a task succeeds for
\* a bound actor who is not the task's owner, and the task is left unchanged.
C4_OnlyOwnerMutates ==
    [][ ( /\ resp'.op \in MutatingOps
          /\ tcUser # NULL
          /\ HasId(tasks, resp'.id)
          /\ tasks[IndexOfId(tasks, resp'.id)].ownerId # tcUser )
        => ( /\ ~resp'.success
             /\ tasks' = tasks
             /\ tasksStore' = tasksStore ) ]_vars

\* C5: getTask by a bound actor on an existing task succeeds, returning that
\* task, exactly when the actor is the task's owner or its assignee.
C5_GetTaskOwnerOrAssignee ==
    ( /\ resp.op = "TaskController.getTask"
      /\ tcUser # NULL
      /\ HasId(tasks, resp.id) )
    => LET task == tasks[IndexOfId(tasks, resp.id)]
       IN  /\ resp.success <=> (task.ownerId = tcUser \/ task.assigneeId = tcUser)
           /\ resp.success => resp.data = <<resp.id>>
           /\ ~resp.threw

\* an assignee who is not the owner has read the task
C5_AssigneeHasRead ==
    /\ resp.op = "TaskController.getTask"
    /\ resp.success
    /\ tcUser # NULL
    /\ HasId(tasks, resp.id)
    /\ tasks[IndexOfId(tasks, resp.id)].ownerId # tcUser
    /\ tasks[IndexOfId(tasks, resp.id)].assigneeId = tcUser

GuardedOps ==
    { "TaskController.createTask", "TaskController.getTasks", "TaskController.getTask",
      "TaskController.updateTask", "TaskController.deleteTask",
      "TaskController.toggleTaskStatus", "TaskController.searchTasks",
      "TaskController.getOverdueTasks", "TaskController.getTasksDueSoon",
      "TaskController.getTaskStats", "TaskController.getCategoryStats",
      "TaskController.clearAllTasks" }

\* C6: every TaskController operation that reads or writes tasks, called while
\* no actor is bound, answers {success:false, error} and leaves the task index
\* and the persisted store unchanged.
C6_NoActorNoEffect ==
    [][ ( /\ resp'.op \in GuardedOps
          /\ tcUser = NULL )
        => ( /\ ~resp'.success
             /\ ~resp'.threw
             /\ resp'.error # ""
             /\ tasks' = tasks
             /\ tasksStore' = tasksStore ) ]_vars

\* a call without an actor was refused while the repository held a task
C6_RefusedWithoutActor ==
    /\ tcUser = NULL
    /\ resp.op = "TaskController.getTasks"
    /\ ~resp.success
    /\ tasks # <<>>

\* C8: createTask and updateTask, given an assigneeId that differs from the
\* bound actor and is not a user of the repository, answer {success:false} and
\* leave the task index and the persisted collection unchanged.
C8_MissingAssigneeRejected ==
    [][ ( /\ resp'.op \in {"TaskController.createTask", "TaskController.updateTask"}
          /\ tcUser # NULL
          /\ IsSome(resp'.assigneeId)
          /\ Val(resp'.assigneeId) # tcUser
          /\ ~HasId(users, Val(resp'.assigneeId)) )
        => ( /\ ~resp'.success
             /\ tasks' = tasks
             /\ tasksStore' = tasksStore
             /\ nextTaskId' = nextTaskId ) ]_vars

\* the owner's update naming an unknown assignee was refused
C8_UnknownAssigneeRefused ==
    /\ resp.op = "TaskController.updateTask"
    /\ resp.error = "User yang di-assign tidak ditemukan"
    /\ IsSome(resp.assigneeId)
    /\ ~HasId(users, Val(resp.assigneeId))
    /\ HasId(tasks, resp.id)
    /\ tasks[IndexOfId(tasks, resp.id)].ownerId = tcUser

ControllerOps ==
    GuardedOps \cup MutatingOps
    \cup { "TaskController.setCurrentUser", "UserController.register",
           "UserController.login", "UserController.logout",
           "UserController.updateProfile" }

\* C9: no TaskController or UserController method raises an exception to its
\* caller; every failure comes back as an envelope.
C9_ControllersNeverThrow ==
    resp.op \in ControllerOps => ~resp.threw

EnumKeys == {"category", "priority", "status"}

EnumSet(key) ==
    IF key = "category" THEN validCategories
    ELSE IF key = "priority" THEN validPriorities
    ELSE validStatuses

\* C10: every task's category, priority and status are members of their
\* enumerated sets; TaskRepository.create or update given a value outside the
\* set raises an error, and a call that succeeds leaves each supplied value in
\* the task as it was given.
C10_EnumeratedNeverCoerced ==
    [][ /\ \A i \in 1..Len(tasks') : \A key \in EnumKeys :
              tasks'[i][key] \in EnumSet(key)
        /\ ( resp'.op \in {"TaskRepository.create", "TaskRepository.update"}
             => \A key \in EnumKeys :
                  IsSome(resp'.supplied[key])
                  => /\ Val(resp'.supplied[key]) \notin EnumSet(key) => resp'.threw
                     /\ resp'.success
                        => tasks'[IndexOfId(tasks', resp'.id)][key]
                              = Val(resp'.supplied[key]) ) ]_vars

\* C11: every task of the task repository has an ownerId and an assigneeId
\* that each identify a user present in the user repository.
C11_TasksReferenceUsers ==
    \A i \in 1..Len(tasks) :
        /\ HasId(users, tasks[i].ownerId)
        /\ HasId(users, tasks[i].assigneeId)

\* C12: a toggleTaskStatus that succeeds sets the status to 'pending' when the
\* task was 'completed' and to 'completed' from every other status; it leaves
\* every other task alone, so a second toggle brings a pending task back to
\* 'pending'.
C12_ToggleFlipsCompletedAndPending ==
    [][ ( /\ resp'.op = "TaskController.toggleTaskStatus"
          /\ resp'.success )
        => LET i == IndexOfId(tasks, resp'.id)
           IN  /\ i # 0
               /\ Len(tasks') = Len(tasks)
               /\ tasks'[i].id = resp'.id
               /\ tasks'[i].status =
                     IF tasks[i].status = "completed" THEN "pending" ELSE "completed"
               /\ \A k \in 1..Len(tasks) : k # i => tasks'[k] = tasks[k] ]_vars

\* a toggle has brought a task back to 'pending'
C12_ToggledBackToPending ==
    /\ resp.op = "TaskController.toggleTaskStatus"
    /\ resp.success
    /\ resp.supplied.status = Some("pending")
    /\ HasId(tasks, resp.id)
    /\ tasks[IndexOfId(tasks, resp.id)].status = "pending"

\* C13: for every user and every task the repositories hold,
\* fromJSON(toJSON(x)) raises nothing and reproduces every field of x.
C13_RoundTripReproducesEveryField ==
    /\ \A i \in 1..Len(tasks) :
          LET r == TaskFromJSON(TaskToJSON(tasks[i]), now)
          IN  r.error = "ok" /\ r.task = tasks[i]
    /\ \A i \in 1..Len(users) :
          LET r == UserFromJSON(UserToJSON(users[i]), now)
          IN  r.error = "ok" /\ r.user = users[i]

\* the ceiling of (dueDate - t) in whole days is d
CeilDaysIs(task, t, d) ==
    /\ (d - 1) * DayMs < task.dueDate - t
    /\ task.dueDate - t <= d * DayMs

\* the task's daysUntilDue is non-null and within 0..days
DueWithin(task, days, t) ==
    task.dueDate # NULL /\ \E d \in 0..days : CeilDaysIs(task, t, d)

\* the task satisfies every criterion the criteria object carries a truthy
\* value for
Satisfies(task, filters, t) ==
    /\ \A key \in {"ownerId", "assigneeId"} :
          (IsSome(filters[key]) /\ Val(filters[key]) # 0)
              => task[key] = Val(filters[key])
    /\ \A key \in {"category", "status", "priority"} :
          (IsSome(filters[key]) /\ Val(filters[key]) # "")
              => task[key] = Val(filters[key])
    /\ (IsSome(filters.overdue) /\ Val(filters.overdue))
          => (task.dueDate # NULL /\ task.dueDate < t /\ task.status # "completed")
    /\ (IsSome(filters.dueSoon) /\ Val(filters.dueSoon)) => DueWithin(task, 3, t)
    /\ (IsSome(filters.tags) /\ Val(filters.tags) # <<>>)
          => \E i \in 1..Len(task.tags), k \in 1..Len(Val(filters.tags)) :
                 task.tags[i] = Val(filters.tags)[k]

\* C14: TaskRepository.filter(criteria) returns exactly the tasks of the
\* repository that satisfy every supplied criterion among ownerId, assigneeId,
\* category, status, priority, overdue, dueSoon and tags, each of them once; a
\* criterion that is absent excludes no task.
C14_FilterReturnsExactlyTheMatches ==
    resp.op = "TaskRepository.filter"
    => /\ \A i \in 1..Len(tasks) :
             Satisfies(tasks[i], resp.query.filters, now)
                 <=> \E k \in 1..Len(resp.data) : resp.data[k] = tasks[i].id
       /\ \A k \in 1..Len(resp.data) : HasId(tasks, resp.data[k])
       /\ \A k, m \in 1..Len(resp.data) : resp.data[k] = resp.data[m] => k = m

\* the tasks a query answered with, in the order of the answer
Answer == [k \in 1..Len(resp.data) |-> tasks[IndexOfId(tasks, resp.data[k])]]

\* the answer holds every task of the repository once
IsPermutation ==
    /\ Len(resp.data) = Len(tasks)
    /\ \A i \in 1..Len(tasks) : \E k \in 1..Len(resp.data) : resp.data[k] = tasks[i].id

\* the rank of a priority: low < medium < high < urgent
Rank(priority) ==
    CASE priority = "low" -> 1
      [] priority = "medium" -> 2
      [] priority = "high" -> 3
      [] OTHER -> 4

\* the two tasks compare equal on the sort key
SameKey(a, b, sortBy) ==
    CASE sortBy = "title" -> a.title = b.title
      [] sortBy = "priority" -> a.priority = b.priority
      [] sortBy = "dueDate" -> a.dueDate = b.dueDate
      [] sortBy = "updatedAt" -> a.updatedAt = b.updatedAt
      [] OTHER -> a.createdAt = b.createdAt

\* C15: TaskRepository.sort(tasks, 'priority', order) orders the tasks by the
\* rank low < medium < high < urgent, ascending or descending as order says;
\* for every sort key two tasks that compare equal on the key keep their
\* original relative order; the result is a permutation of the input.
C15_SortByRankStable ==
    resp.op = "TaskRepository.sort"
    => /\ IsPermutation
       /\ \A k, m \in 1..Len(resp.data) :
             k < m =>
                /\ resp.query.sortBy = "priority"
                      => IF resp.query.order = "asc"
                         THEN Rank(Answer[k].priority) <= Rank(Answer[m].priority)
                         ELSE Rank(Answer[k].priority) >= Rank(Answer[m].priority)
                /\ SameKey(Answer[k], Answer[m], resp.query.sortBy)
                      => IndexOfId(tasks, resp.data[k]) < IndexOfId(tasks, resp.data[m])

\* C16: TaskRepository.sort(tasks, 'dueDate', 'asc') places every task that has
\* no due date after every task that has one, and orders the dated tasks by
\* non-decreasing due date.
C16_UndatedSortLast ==
    (resp.op = "TaskRepository.sort" /\ resp.query.sortBy = "dueDate"
        /\ resp.query.order = "asc")
    => \A k, m \in 1..Len(resp.data) :
          k < m =>
             /\ Answer[k].dueDate = NULL => Answer[m].dueDate = NULL
             /\ (Answer[k].dueDate # NULL /\ Answer[m].dueDate # NULL)
                   => Answer[k].dueDate <= Answer[m].dueDate

\* C17: TaskRepository.findDueSoon(days) returns exactly the tasks whose
\* daysUntilDue is non-null and satisfies 0 <= daysUntilDue <= days, where
\* daysUntilDue is the ceiling of (dueDate - now) in whole days; a task due 2
\* days from now is returned by findDueSoon(3) and not by findDueSoon(1).
C17_DueSoonIsTheDayWindow ==
    resp.op = "TaskRepository.findDueSoon"
    => /\ \A i \in 1..Len(tasks) :
             DueWithin(tasks[i], resp.query.days, now)
                 <=> \E k \in 1..Len(resp.data) : resp.data[k] = tasks[i].id
       /\ \A k \in 1..Len(resp.data) : HasId(tasks, resp.data[k])
       /\ \A k, m \in 1..Len(resp.data) : resp.data[k] = resp.data[m] => k = m
       /\ \A i \in 1..Len(tasks) :
             tasks[i].dueDate = now + 2 * DayMs
                 => ((\E k \in 1..Len(resp.data) : resp.data[k] = tasks[i].id)
                        <=> resp.query.days >= 2)

\* findDueSoon(3) returned a task due in 2 days and left out one whose due
\* date is 3 days and 1 ms away
C17_DueInTwoDaysFound ==
    /\ resp.op = "TaskRepository.findDueSoon"
    /\ resp.query.days = 3
    /\ \E i \in 1..Len(tasks) :
          /\ tasks[i].dueDate = now + 2 * DayMs
          /\ \E k \in 1..Len(resp.data) : resp.data[k] = tasks[i].id
    /\ \E i \in 1..Len(tasks) :
          /\ tasks[i].dueDate = now + 3 * DayMs + 1
          /\ \A k \in 1..Len(resp.data) : resp.data[k] # tasks[i].id

\* the query answers with the due-soon tasks
AnswersDueSoon ==
    \/ resp.op = "TaskRepository.findDueSoon"
    \/ /\ resp.op = "TaskRepository.filter"
       /\ IsSome(resp.query.filters.dueSoon)
       /\ Val(resp.query.filters.dueSoon)

\* the tasks getStats counted that have a due date not yet past
NotYetPast ==
    LET Test(task) == task.dueDate # NULL /\ task.dueDate >= now
    IN  SelectSeq(StatsTasks(tasks, resp.query.userId), Test)

\* C18: a task that is due-soon (returned by findDueSoon, matched by filter's
\* dueSoon flag, or counted in getStats.dueSoon) has a due date that is not yet
\* past: no task is both due-soon and already past its due date (dueDate < now).
C18_DueSoonIsNotPast ==
    /\ AnswersDueSoon
          => \A k \in 1..Len(resp.data) :
                Answer[k].dueDate # NULL /\ Answer[k].dueDate >= now
    /\ (resp.op = "TaskRepository.getStats" /\ "dueSoon" \in DOMAIN resp.stats)
          => resp.stats.dueSoon <= Len(NotYetPast)

\* the task has a due date strictly before t and is not completed
PastAndOpen(task, t) ==
    task.dueDate # NULL /\ task.dueDate < t /\ task.status # "completed"

\* C19: a task is overdue exactly when it has a due date, the due date is
\* strictly before now, and its status is not 'completed': findOverdue returns
\* exactly those tasks and getStats counts exactly those as overdue; a task due
\* 1 ms ago with any other status is overdue, the same task completed is not,
\* and a task with no due date never is.
C19_OverdueIsPastAndOpen ==
    /\ resp.op = "TaskRepository.findOverdue"
          => /\ \A i \in 1..Len(tasks) :
                   PastAndOpen(tasks[i], now)
                       <=> \E k \in 1..Len(resp.data) : resp.data[k] = tasks[i].id
             /\ \A k \in 1..Len(resp.data) : HasId(tasks, resp.data[k])
             /\ \A i \in 1..Len(tasks) :
                   (\E k \in 1..Len(resp.data) : resp.data[k] = tasks[i].id)
                       <=> (tasks[i].dueDate \in {now - 1, now - DayMs - 1}
                               /\ tasks[i].status # "completed")
    /\ resp.op = "TaskRepository.getStats"
          => resp.stats.overdue =
                Cardinality({ i \in 1..Len(tasks) :
                                /\ PastAndOpen(tasks[i], now)
                                /\ (resp.query.userId # 0
                                       => tasks[i].ownerId = resp.query.userId) })

\* findOverdue returned a task due 1 ms ago and left out a completed task due
\* at the same instant
C19_OverdueByOneMs ==
    /\ resp.op = "TaskRepository.findOverdue"
    /\ \E i, j \in 1..Len(tasks) :
          /\ tasks[i].dueDate = now - 1 /\ tasks[i].status # "completed"
          /\ \E k \in 1..Len(resp.data) : resp.data[k] = tasks[i].id
          /\ tasks[j].dueDate = now - 1 /\ tasks[j].status = "completed"
          /\ \A k \in 1..Len(resp.data) : resp.data[k] # tasks[j].id

\* the object has a numeric count under every one of the keys
CountsEvery(object, keys) ==
    \A key \in keys : key \in DOMAIN object /\ object[key] \in Nat

\* C20: TaskRepository.getStats and getCategoryStats, for any repository
\* content including the empty one and for any ownerId, return a numeric count
\* for every enumerated status, priority and category key, and getStats also
\* returns total, completed, overdue and due-soon counts.
C20_StatsZeroFilled ==
    /\ resp.op = "TaskRepository.getStats"
          => /\ CountsEvery(resp.stats, {"total", "completed", "overdue", "dueSoon"})
             /\ {"byStatus", "byPriority", "byCategory"} \subseteq DOMAIN resp.stats
             /\ CountsEvery(resp.stats.byStatus,
                    {"pending", "in-progress", "blocked", "completed", "cancelled"})
             /\ CountsEvery(resp.stats.byPriority, {"low", "medium", "high", "urgent"})
             /\ CountsEvery(resp.stats.byCategory,
                    {"work", "personal", "study", "health", "finance", "other"})
    /\ resp.op = "TaskRepository.getCategoryStats"
          => \A c \in {"work", "personal", "study", "health", "finance", "other"} :
                /\ c \in DOMAIN resp.stats
                /\ CountsEvery(resp.stats[c], {"total", "completed", "pending", "overdue"})

\* what the export holds for an entity; a key it lacks was not in the store
ExportedValue(entity) ==
    IF entity \in DOMAIN Val(exported).data THEN Val(exported).data[entity] ELSE <<>>

\* importData succeeds right after a clear() that succeeded
ImportsAfterClear ==
    /\ resp.op = "EnhancedStorageManager.clear" /\ resp.success
    /\ resp'.op = "EnhancedStorageManager.importData" /\ resp'.success

\* C21: exportData(), clear(), importData(that export) restores every key of
\* the application's namespace to the value it had at export time, and the
\* repositories rebuilt from the store afterwards hold an index whose
\* serialized form is the exported one.
C21_ExportClearImportRestores ==
    [][ /\ (resp'.op = "EnhancedStorageManager.exportData" /\ resp'.success)
            => /\ IsSome(exported')
               /\ \A e \in Entities :
                      IF e \in DOMAIN Val(exported').data
                      THEN Val(exported').data[e] = Stored(e)
                      ELSE Stored(e) = <<>>
        /\ ImportsAfterClear
            => /\ usersStore' = ExportedValue("users")
               /\ tasksStore' = ExportedValue("tasks")
               /\ _saveUsers(_loadUsers(usersStore', now)) = ExportedValue("users")
               /\ _saveTasks(_loadTasks(tasksStore', now)) = ExportedValue("tasks") ]_vars

\* C22: when the underlying store is unavailable, EnhancedStorageManager.save
\* and remove return false and write nothing, load returns the supplied
\* default, none of them raises, and repository create/update/delete still
\* succeed on the in-memory index.
C22_UnavailableStoreDegrades ==
    [][ ~isAvailable =>
          /\ resp'.op \in {"EnhancedStorageManager.save", "EnhancedStorageManager.remove"}
                => ~resp'.success /\ ~resp'.threw
          /\ resp'.op = "EnhancedStorageManager.load"
                => ~resp'.threw /\ resp'.value.returned = resp'.value.defaultValue
          /\ usersStore' = usersStore /\ tasksStore' = tasksStore
          /\ (resp'.op = "TaskRepository.create" /\ ~resp'.threw)
                => /\ resp'.success
                   /\ Len(tasks') = Len(tasks) + 1
                   /\ tasks'[Len(tasks')].id = resp'.id
          /\ (resp'.op = "TaskRepository.update" /\ HasId(tasks, resp'.id)
                  /\ ~resp'.threw)
                => resp'.success /\ HasId(tasks', resp'.id)
          /\ (resp'.op = "TaskRepository.delete" /\ HasId(tasks, resp'.id))
                => resp'.success /\ ~HasId(tasks', resp'.id)
          /\ (resp'.op = "UserRepository.delete" /\ HasId(users, resp'.id))
                => resp'.success ]_vars

\* over an unavailable store a task was created and then updated in memory,
\* and nothing was stored
C22_UpdatedWithoutStore ==
    /\ ~isAvailable
    /\ resp.op = "TaskRepository.update" /\ resp.success
    /\ HasId(tasks, resp.id)
    /\ tasks[IndexOfId(tasks, resp.id)].title = H
    /\ tasksStore = <<>>

\* some deactivated user of the repository has this username, or this email
InactiveHas(username, email) ==
    \E i \in 1..Len(users) :
        /\ ~users[i].isActive
        /\ users[i].username = username \/ users[i].email = email

\* C23: UserRepository.delete(id) on an existing user only deactivates it:
\* afterwards findById and findAll still return the record, findActive does
\* not; the username and the email of a deactivated user remain reserved
\* against create, and UserController.login with that username fails; delete
\* on an unknown id returns false and changes nothing.
C23_DeleteOnlyDeactivates ==
    [][ /\ resp'.op = "UserRepository.delete"
            => IF HasId(users, resp'.id)
               THEN LET i == IndexOfId(users, resp'.id)
                    IN  /\ resp'.success
                        /\ users' = [users EXCEPT ![i].isActive = FALSE]
                        /\ HasId(users', resp'.id)
                        /\ \E k \in 1..Len(findAll(users')) :
                              findAll(users')[k].id = resp'.id
                        /\ \A k \in 1..Len(findActive(users')) :
                              findActive(users')[k].id # resp'.id
               ELSE ~resp'.success /\ users' = users /\ usersStore' = usersStore
        /\ (resp'.op = "UserRepository.create"
                /\ InactiveHas(resp'.username, resp'.email))
            => ~resp'.success /\ users' = users /\ usersStore' = usersStore
        /\ (resp'.op = "UserController.login" /\ InactiveHas(resp'.username, <<>>))
            => ~resp'.success /\ ucUser' = ucUser /\ users' = users ]_vars
\* C24: delete(id) removes exactly the task with that id and
\* deleteAllByOwner(ownerId) exactly the tasks whose ownerId is ownerId, tasks
\* of other owners assigned to ownerId included among those kept; each saves
\* the resulting tasks and answers true if and only if it removed a task.
C24_DeleteRemovesExactlyTheTargets ==
    [][ /\ resp'.op = "TaskRepository.delete"
            => /\ tasks' = RemoveId(tasks, resp'.id)
               /\ resp'.success <=> HasId(tasks, resp'.id)
               /\ tasksStore' = IF resp'.success THEN _saveTasks(tasks') ELSE tasksStore
        /\ resp'.op = "TaskRepository.deleteAllByOwner"
            => LET ownerId == resp'.query.userId
                   Others(task) == task.ownerId # ownerId
               IN  /\ tasks' = SelectSeq(tasks, Others)
                   /\ resp'.success <=> (\E i \in 1..Len(tasks) : tasks[i].ownerId = ownerId)
                   /\ tasksStore' = IF resp'.success THEN _saveTasks(tasks') ELSE tasksStore ]_vars

\* The task after an update that returned: every key of updates that has a
\* mutator left the field of that mutator as the mutator leaves it, and every
\* other field, ownerId with its key in updates included, is as it was.
TaskKeysApplied(before, after, u, t) ==
    LET Through(key, Mutator(_, _, _)) ==
            IF IsSome(key) THEN Mutator(before, Val(key), t).task ELSE before
    IN  /\ after.title = Through(u.title, updateTitle).title
        /\ after.description = Through(u.description, updateDescription).description
        /\ after.category = Through(u.category, updateCategory).category
        /\ after.priority = Through(u.priority, updatePriority).priority
        /\ after.status = Through(u.status, updateStatus).status
        /\ after.dueDate = Through(u.dueDate, setDueDate).dueDate
        /\ after.assigneeId = Through(u.assigneeId, assignTo).assigneeId
        /\ after.estimatedHours = Through(u.estimatedHours, setEstimatedHours).estimatedHours
        /\ after.actualHours = Through(u.addTimeSpent, addTimeSpent).actualHours
        /\ after.notes = Through(u.addNote, addNote).notes
        /\ after.tags = before.tags
        /\ after.id = before.id
        /\ after.ownerId = before.ownerId
        /\ after.createdAt = before.createdAt

UserKeysApplied(before, after, u) ==
    /\ after.fullName = updateProfile(before, u.fullName, u.email).fullName
    /\ after.email = updateProfile(before, u.fullName, u.email).email
    /\ after.isActive = IF IsSome(u.isActive) THEN Val(u.isActive) ELSE before.isActive
    /\ after.preferences = before.preferences
    /\ after.id = before.id
    /\ after.username = before.username

\* C25: TaskRepository.update and UserRepository.update with an id that is
\* not in the repository return null and leave the repository and the store
\* as they were; with an id that is, a call that returns has applied every
\* key that has a mutator through that mutator, and a key that has none
\* raises nothing and changes no field.
C25_UpdateAppliesTheKnownKeys ==
    [][ /\ \A id \in TaskIds, u \in RepoTaskUpdates :
              (TaskRepository_update(id, u) \/ TaskRepository_update_basic(id, u))
                  => IF ~HasId(tasks, id)
                     THEN /\ resp'.error = "null" /\ ~resp'.threw
                          /\ tasks' = tasks /\ tasksStore' = tasksStore
                     ELSE /\ u.ownerId # None /\ u.priority = Some("high") => resp'.success
                          /\ resp'.success
                              => /\ Len(tasks') = Len(tasks)
                                 /\ TaskKeysApplied(tasks[IndexOfId(tasks, id)],
                                                    tasks'[IndexOfId(tasks, id)], u, now)
        /\ \A id \in RepoUserIds, u \in RepoUserUpdates :
              UserRepository_update(id, u)
                  => IF ~HasId(users, id)
                     THEN /\ resp'.error = "null" /\ ~resp'.threw
                          /\ users' = users /\ usersStore' = usersStore
                     ELSE /\ resp'.success
                          /\ Len(users') = Len(users)
                          /\ UserKeysApplied(users[IndexOfId(users, id)],
                                             users'[IndexOfId(users, id)], u) ]_vars

\* C26: whatever is done to the repository (create with an estimatedHours
\* option, update with estimatedHours or addTimeSpent, a reload of the stored
\* tasks), every task then has estimatedHours >= 0 and actualHours >= 0, and
\* the actualHours of a task that stays are not less than they were.
C26_HoursNeverNegative ==
    [][ /\ \A j \in 1..Len(tasks') :
              tasks'[j].estimatedHours >= 0 /\ tasks'[j].actualHours >= 0
        /\ \A i \in 1..Len(tasks), j \in 1..Len(tasks') :
              tasks[i].id = tasks'[j].id
                  => tasks'[j].actualHours >= tasks[i].actualHours ]_vars

\* the positions of tag in tags
Places(tags, tag) == { k \in 1..Len(tags) : tags[k] = tag }

\* C27: whatever is done to the repository (create with a tags option, update
\* with addTag or removeTag), no task then has a tag twice, the tags a task
\* keeps stand in the order they stood in, and a tag that is added comes
\* after those the task had.
C27_TagsDistinctInOrder ==
    [][ /\ \A j \in 1..Len(tasks') : \A k, m \in 1..Len(tasks'[j].tags) :
              tasks'[j].tags[k] = tasks'[j].tags[m] => k = m
        /\ \A i \in 1..Len(tasks), j \in 1..Len(tasks') :
              tasks[i].id = tasks'[j].id
                  => LET old == tasks[i].tags
                         new == tasks'[j].tags
                     IN  \A a \in 1..Len(new), b \in 1..Len(new) :
                             a < b /\ Places(old, new[b]) # {}
                                 => \E c \in Places(old, new[a]), d \in Places(old, new[b]) : c < d ]_vars

\* the task of that id among ts
TaskOfId(ts, id) == ts[IndexOfId(ts, id)]

\* C28: a task that TaskController.createTask creates is owned by the bound
\* actor whatever ownerId the input names and is assigned to the actor when
\* the input names no assignee; every other task of the repository was there
\* before under the same id with the same owner, so that no operation changes
\* the ownerId or the id of a task.
C28_OwnerIsTheActorForGood ==
    [][ /\ (resp'.op = "TaskController.createTask" /\ resp'.success)
            => /\ ~HasId(tasks, resp'.id) /\ HasId(tasks', resp'.id)
               /\ TaskOfId(tasks', resp'.id).ownerId = tcUser
               /\ OrElseNum(resp'.assigneeId, 0) = 0
                      => TaskOfId(tasks', resp'.id).assigneeId = tcUser
        /\ \A j \in 1..Len(tasks') :
              \/ /\ HasId(tasks, tasks'[j].id)
                 /\ TaskOfId(tasks, tasks'[j].id).ownerId = tasks'[j].ownerId
              \/ /\ resp'.op = "TaskController.createTask" /\ resp'.success
                 /\ tasks'[j].id = resp'.id
        /\ \A j, k \in 1..Len(tasks') : tasks'[j].id = tasks'[k].id => j = k ]_vars

\* createTask by the actor succeeded with an input naming another owner
C28_CreatedWithForeignOwner ==
    /\ resp.op = "TaskController.createTask" /\ resp.success
    /\ IsSome(resp.ownerId) /\ Val(resp.ownerId) # tcUser
    /\ HasId(tasks, resp.id)
    /\ TaskOfId(tasks, resp.id).ownerId = tcUser

\* the repository calls that change a repository
MutatingCalls ==
    { "TaskRepository.create", "TaskRepository.update", "TaskRepository.delete",
      "TaskRepository.deleteAllByOwner",
      "UserRepository.create", "UserRepository.update", "UserRepository.delete",
      "UserRepository.hardDelete", "UserRepository.recordLogin" }

\* C29: once create, update, delete, deleteAllByOwner, recordLogin or
\* hardDelete of a repository has returned or raised over an available store,
\* the stored 'tasks' are the serialization of the tasks of the repository
\* and the stored 'users' that of its users.
C29_StoreFollowsEveryCall ==
    [][ (resp'.op \in MutatingCalls /\ isAvailable')
            => /\ tasksStore' = _saveTasks(tasks')
               /\ usersStore' = _saveUsers(users') ]_vars

\* C30: a TaskRepository or a UserRepository constructed over the store that
\* the repository before it has just written holds the same ids, and each of
\* its tasks or users serializes as it did in the repository that wrote it.
C30_RestartKeepsEveryEntity ==
    [][ /\ (resp'.op = "TaskRepository.constructor" /\ isAvailable
                /\ tasksStore = _saveTasks(tasks))
            => /\ Ids(tasks') = Ids(tasks)
               /\ _saveTasks(tasks') = _saveTasks(tasks)
        /\ (resp'.op = "UserRepository.constructor" /\ isAvailable
                /\ usersStore = _saveUsers(users))
            => /\ Ids(users') = Ids(users)
               /\ _saveUsers(users') = _saveUsers(users) ]_vars

\* the saves of the '_metadata' record that are under way
MetadataSaves == { i \in 1..Len(stack) : stack[i].method = "save" /\ stack[i].entity = "_metadata" }

\* C31: a save does not start an unbounded chain of saves of the '_metadata'
\* record: while a call of the manager is under way, at most one save of
\* '_metadata', the one its metadata update makes, is under way with it.
C31_NoChainOfMetadataSaves ==
    Cardinality(MetadataSaves) <= 1

\* the entities of the '_metadata' record as it stands after the step
EntitiesNext == Val(metadata').entities

\* C32: when save(entity, data) has returned true, the '_metadata' record
\* holds entities[entity] = {lastUpdated: the timestamp of the envelope just
\* written, version: the manager's version} and load(entity) returns data;
\* when remove(entity) has returned true, exists(entity) is false, the
\* '_metadata' record has no entry for entity, and every other entry it had
\* when remove was called is there unchanged.
C32_MetadataFollowsSaveAndRemove ==
    [][ /\ (resp'.op = "EnhancedStorageManager.save" /\ resp'.success)
            => LET entity == resp'.value.entity
               IN  /\ IsSome(metadata')
                   /\ entity \in DOMAIN EntitiesNext
                   /\ EntitiesNext[entity] = [lastUpdated |-> resp'.value.timestamp,
                                              version |-> version]
                   /\ stamps'[entity] = resp'.value.timestamp
                   /\ (IF entity = "users" THEN usersStore' ELSE tasksStore')
                          = resp'.value.data
        /\ (resp'.op = "EnhancedStorageManager.remove" /\ resp'.success)
            => LET entity == resp'.value.entity
               IN  /\ stamps'[entity] = NULL
                   /\ IsSome(metadata')
                   /\ entity \notin DOMAIN EntitiesNext
                   /\ \A k \in DOMAIN resp'.value.before \ {entity} :
                          /\ k \in DOMAIN EntitiesNext
                          /\ EntitiesNext[k] = resp'.value.before[k] ]_vars

\* C33: a change the caller makes to a container it got from an accessor or
\* from toJSON, or to the tags array it passed to create, leaves the tasks and
\* the users of the repositories as they were.
C33_ContainersAreNeverShared ==
    [][ resp'.op = "caller.change" => tasks' = tasks /\ users' = users ]_vars

ListCalls ==
    { "TaskController.getTasks", "TaskController.searchTasks",
      "TaskController.getOverdueTasks", "TaskController.getTasksDueSoon",
      "TaskController.getTasksByCategory" }

\* C34: every task that getTasks, searchTasks, getOverdueTasks,
\* getTasksDueSoon or getTasksByCategory returns is a task of the repository
\* owned by the bound actor, whatever the filters, and the count in the answer
\* is the number of tasks returned.
C34_ListsOnlyTheActorsTasks ==
    (resp.op \in ListCalls /\ resp.success)
        => /\ \A k \in 1..Len(resp.data) :
                  /\ HasId(tasks, resp.data[k])
                  /\ TaskOfId(tasks, resp.data[k]).ownerId = tcUser
           /\ resp.count = Some(Len(resp.data))

\* the sum of the counts of an object of counts
RECURSIVE SumOf(_, _)
SumOf(counts, keys) ==
    IF keys = {} THEN 0
    ELSE LET k == CHOOSE x \in keys : TRUE
         IN  counts[k] + SumOf(counts, keys \ {k})

Sum(counts) == SumOf(counts, DOMAIN counts)

\* C35: for any content of the repository and any ownerId, getStats has
\* total = sum of byStatus = sum of byPriority = sum of byCategory and
\* completed = byStatus.completed; getCategoryStats has, for every category,
\* total = completed + pending and overdue <= pending, and its totals add up
\* to the total of getStats.
C35_StatsAddUp ==
    /\ resp.op = "TaskRepository.getStats"
          => /\ {"byStatus", "byPriority", "byCategory"} \subseteq DOMAIN resp.stats
             /\ resp.stats.total = Sum(resp.stats.byStatus)
             /\ resp.stats.total = Sum(resp.stats.byPriority)
             /\ resp.stats.total = Sum(resp.stats.byCategory)
             /\ resp.stats.completed = resp.stats.byStatus["completed"]
    /\ resp.op = "TaskRepository.getCategoryStats"
          => /\ \A c \in DOMAIN resp.stats :
                    /\ resp.stats[c].total = resp.stats[c].completed + resp.stats[c].pending
                    /\ resp.stats[c].overdue <= resp.stats[c].pending
             /\ SumOf([c \in DOMAIN resp.stats |-> resp.stats[c].total], DOMAIN resp.stats)
                    = getStats(tasks, resp.query.userId, now).total

\* C36: TaskController.setCurrentUser(id) with the id of a user of the
\* repository binds that user as the actor; with another id it raises and
\* leaves the controller without an actor, whoever was bound before; in both
\* cases the tasks and the users are as they were.
C36_SetCurrentUserBindsOrUnbinds ==
    [][ resp'.op = "TaskController.setCurrentUser"
            => /\ IF HasId(users, resp'.id)
                  THEN resp'.success /\ ~resp'.threw /\ tcUser' = resp'.id
                  ELSE resp'.threw /\ ~resp'.success /\ tcUser' = NULL
               /\ resp'.value = tcUser
               /\ tasks' = tasks /\ users' = users /\ ucUser' = ucUser ]_vars

\* setCurrentUser with nobody's id raised while an actor was bound
C36_UnboundByUnknownId ==
    /\ resp.op = "TaskController.setCurrentUser" /\ resp.threw
    /\ resp.value # NULL
    /\ ~HasId(users, resp.id)
    /\ tcUser = NULL

\* C37: UserController.currentUser starts empty and is given a user only by
\* a login that succeeded, for a user that was in the repository and active
\* when the login was made; a login that failed leaves it as it was; a logout
\* leaves it empty; nothing else changes it.
C37_CurrentUserFollowsLoginAndLogout ==
    /\ ucUser = NULL
    /\ [][ /\ resp'.op = "UserController.login" /\ resp'.success
                => /\ ucUser' = resp'.id
                   /\ HasId(users, resp'.id)
                   /\ users[IndexOfId(users, resp'.id)].isActive
           /\ resp'.op = "UserController.login" /\ ~resp'.success
                => ucUser' = ucUser
           /\ resp'.op = "UserController.logout" => ucUser' = NULL
           /\ ucUser' # ucUser
                => \/ resp'.op = "UserController.login" /\ resp'.success
                   \/ resp'.op = "UserController.logout" ]_vars

\* a login for a deactivated account failed while somebody was logged in
C37_FailedLoginWhileLoggedIn ==
    /\ resp.op = "UserController.login" /\ ~resp.success
    /\ resp.error = "Akun tidak aktif"
    /\ ucUser # NULL

\* C38: under the application's login and logout the two session handles
\* agree: whenever UserController has nobody logged in, TaskController has no
\* actor, and a task operation made then is refused as unauthenticated.
C38_SessionHandlesAgree ==
    ucUser = NULL
        => /\ tcUser = NULL
           /\ resp.op \in {"TaskController.createTask", "TaskController.getTask",
                            "TaskController.deleteTask"}
                => ~resp.success /\ resp.error = "User harus login terlebih dahulu"
====
